---- MODULE Spec2Model ----
(***************************************************************************)
(* Task list of openmrs-esm-task-list: the Task <-> FHIR CarePlan mapping  *)
(* (task-list.resource), the list hook, the mutation functions, the        *)
(* add/edit form and the views that call them, against a CarePlan store.   *)
(*                                                                         *)
(* JavaScript values are represented as follows.                           *)
(*   - an optional value is a sequence of length 0 (undefined / null /     *)
(*     key absent) or 1 (the value);                                       *)
(*   - an object is a record; a Partial<Task> may lack keys, and a key is  *)
(*     read with Prop, which gives None for a missing key;                 *)
(*   - a string that is trimmed or measured (task name, rationale) is the  *)
(*     sequence of its characters; identifiers and codes are strings;      *)
(*   - a reference "Type/id" is the sequence of its '/'-separated parts,   *)
(*     which is what reference.split('/') returns;                         *)
(*   - a Date is its getTime() value, an integer; an ISO-8601 string is    *)
(*     the decimal text of that integer.                                   *)
(***************************************************************************)
EXTENDS Integers, Sequences, FiniteSets, TLC

VARIABLES
  server,    \* the CarePlan store behind {base}/tasks/careplan: uuid -> CarePlan
  data,      \* SWR data of useTaskList: the last list response, if any
  tasks,     \* the tasks useTaskList returns for data
  held,      \* SWR data of useTask for the selected task, if any
  form,      \* the values of the add/edit form
  formErrors,\* the fields the form currently marks invalid
  lastReq,   \* the last user action and the HTTP request it issued, if any
  editTaskUuid, \* the editTaskUuid prop of the mounted form, if any
  heldError, \* SWR error of useTask for the selected task, if any
  effects,   \* what the handler that ran last did, in order: requests,
             \* revalidations, notifications and navigation callbacks
  view,      \* the view state of TaskListWorkspace
  selectedTaskUuid, \* the selectedTaskUuid state of TaskListWorkspace, if any
  pendingUpdates,   \* the pendingUpdates state of the mounted TaskListView
  inFlight   \* the handler calls awaiting their request or the revalidation
             \* after it, in the order they were made

\* The state of the workspace component and of the calls in flight.
workspaceVars == <<view, selectedTaskUuid, pendingUpdates, inFlight>>

vars ==
  <<server, data, tasks, held, form, formErrors, lastReq, editTaskUuid, heldError, effects,
    workspaceVars>>

----------------------------------------------------------------------------
(* Optional values and object keys *)

None == <<>>
Some(x) == <<x>>
IsSome(o) == Len(o) > 0
Get(o) == o[1]

\* o.f of JavaScript for an optional key f: undefined when the key is absent.
Prop(o, f) == IF f \in DOMAIN o THEN o[f] ELSE None

\* task.uuid as a condition: absent and '' are both falsy.
HasUuid(task) == "uuid" \in DOMAIN task /\ task.uuid # ""

\* task.completed as a condition: absent is falsy.
IsCompleted(task) == "completed" \in DOMAIN task /\ task.completed

\* { ...o, ...changes }
Spread(o, changes) ==
  [k \in (DOMAIN o) \cup (DOMAIN changes) |->
     IF k \in DOMAIN changes THEN changes[k] ELSE o[k]]

----------------------------------------------------------------------------
(* Bounds and the values the model draws from *)

MaxTasks == 2      \* CarePlans the store holds at most
MaxEntries == 2    \* entries of a list response in the list specification
MaxTime == 1       \* instants range over -MaxTime..MaxTime; 0 is the epoch
MaxPerformers == 2 \* performer entries of a stored activity detail

Times == (0 - MaxTime)..MaxTime

PatientUuid == "P1"

dueKindUrl == "http://openmrs.org/fhir/StructureDefinition/activity-dueKind"
associatedEncounterUrl == "http://hl7.org/fhir/StructureDefinition/encounter-associatedEncounter"

\* Date.prototype.toISOString
toISOString(date) == ToString(date)

\* parseDate of the framework, as the form's tests stub it:
\* (date) => (date ? new Date(date) : undefined)
parseDate(str) ==
  IF IsSome(str) /\ \E d \in Times : ToString(d) = Get(str)
    THEN Some(CHOOSE d \in Times : ToString(d) = Get(str))
    ELSE None

\* String.prototype.trim on a sequence of characters
RECURSIVE trimStart(_)
trimStart(s) == IF s # <<>> /\ Head(s) = " " THEN trimStart(Tail(s)) ELSE s

RECURSIVE trimEnd(_)
trimEnd(s) ==
  IF s # <<>> /\ s[Len(s)] = " " THEN trimEnd(SubSeq(s, 1, Len(s) - 1)) ELSE s

trim(s) == trimEnd(trimStart(s))

----------------------------------------------------------------------------
(* task-list.resource: CarePlan -> Task *)

parseAssignment(performer) ==
  LET reference == IF IsSome(performer.reference) THEN Get(performer.reference) ELSE <<"">>
      resourceType == reference[1]
      identifier == IF Len(reference) >= 2 THEN reference[2] ELSE ""
  IN  IF resourceType = "Practitioner" /\ identifier # ""
        THEN Some([type |-> "provider",
                   value |-> [uuid |-> identifier, display |-> performer.display, type |-> "person"]])
      ELSE IF resourceType = "PractitionerRole" /\ identifier # ""
        THEN Some([type |-> "providerRole",
                   value |-> [uuid |-> identifier, display |-> performer.display, type |-> "role"]])
      ELSE None

\* extractDueDateStep not reading the due-kind extension.
extractDueDateStepSkipping(acc, ext) == acc

\* One iteration of the loop over detail.extension; acc carries the two locals.
extractDueDateStep(acc, ext) ==
  IF ext.url = dueKindUrl
    THEN LET value == IF IsSome(ext.valueCode) /\ Get(ext.valueCode) # ""
                        THEN ext.valueCode ELSE ext.valueString
         IN  IF value = Some("this-visit") THEN [acc EXCEPT !.dueDateType = Some("THIS_VISIT")]
             ELSE IF value = Some("next-visit") THEN [acc EXCEPT !.dueDateType = Some("NEXT_VISIT")]
             ELSE IF value = Some("date") THEN [acc EXCEPT !.dueDateType = Some("DATE")]
             ELSE acc
  ELSE IF ext.url = associatedEncounterUrl
    THEN LET ref == IF IsSome(ext.valueReference) THEN Get(ext.valueReference).reference ELSE None
         IN  IF IsSome(ref) /\ Get(ref)[1] = "Encounter" /\ Len(Get(ref)) >= 2
               THEN [acc EXCEPT !.visitUuid = Some(Get(ref)[2])]
               ELSE acc
  ELSE acc

RECURSIVE extractDueDateLoop(_, _)
extractDueDateLoop(acc, exts) ==
  IF exts = <<>> THEN acc
  ELSE extractDueDateLoop(extractDueDateStep(acc, Head(exts)), Tail(exts))

\* The value returned has no visit uuid: the local visitUuid is read from the
\* extension and then dropped.
extractDueDate(detail) ==
  IF ~IsSome(detail) THEN [dueDate |-> None, dueDateType |-> None]
  ELSE
    LET d == Get(detail)
        scanned == extractDueDateLoop([dueDateType |-> None, visitUuid |-> None],
                                      IF IsSome(d.extension) THEN Get(d.extension) ELSE <<>>)
        end == IF IsSome(d.scheduledPeriod) THEN Get(d.scheduledPeriod).end ELSE None
        hasEnd == IsSome(end) /\ Get(end) # ""
        dueDate == IF hasEnd THEN end ELSE None
        dueDateType == IF hasEnd /\ ~IsSome(scanned.dueDateType) THEN Some("DATE")
                       ELSE scanned.dueDateType
    IN  [dueDate |-> IF IsSome(dueDate) THEN parseDate(dueDate) ELSE None,
         dueDateType |-> dueDateType]

\* assignPerformers keeping the first recognised performer.
RECURSIVE assignPerformersFirstWins(_, _)
assignPerformersFirstWins(assignee, performers) ==
  IF performers = <<>> THEN assignee
  ELSE LET assignment == parseAssignment(Head(performers))
       IN  assignPerformersFirstWins(IF IsSome(assignment) /\ ~IsSome(assignee)
                                       THEN Some(Get(assignment).value) ELSE assignee,
                                     Tail(performers))

\* performers.forEach: the last recognised performer sets task.assignee.
RECURSIVE assignPerformers(_, _)
assignPerformers(assignee, performers) ==
  IF performers = <<>> THEN assignee
  ELSE LET assignment == parseAssignment(Head(performers))
       IN  assignPerformers(IF IsSome(assignment) THEN Some(Get(assignment).value) ELSE assignee,
                            Tail(performers))

createTaskFromCarePlan(carePlan) ==
  LET activity == IF Len(carePlan.activity) >= 1 THEN Some(carePlan.activity[1]) ELSE None
      detail == IF IsSome(activity) THEN Get(activity).detail ELSE None
      status == IF IsSome(detail) THEN Get(detail).status ELSE None
      performers == IF IsSome(detail) /\ IsSome(Get(detail).performer)
                      THEN Get(Get(detail).performer) ELSE <<>>
      due == extractDueDate(detail)
  IN  [uuid |-> IF IsSome(carePlan.id) THEN Get(carePlan.id) ELSE "",
       name |-> IF IsSome(detail) /\ IsSome(Get(detail).description)
                  THEN Get(Get(detail).description) ELSE <<>>,
       status |-> status,
       createdDate |-> parseDate(carePlan.created),
       dueDate |-> Some([type |-> due.dueDateType, date |-> due.dueDate]),
       rationale |-> carePlan.description,
       createdBy |-> IF IsSome(carePlan.author) THEN Get(carePlan.author).display ELSE None,
       completed |-> (status = Some("completed")),
       assignee |-> assignPerformers(None, performers)]

----------------------------------------------------------------------------
(* task-list.resource: Task -> CarePlan *)

buildPerformer(task) ==
  LET assignee == Prop(task, "assignee")
      hasUuid == IsSome(assignee) /\ Get(assignee).uuid # ""
      first == IF hasUuid
                 THEN <<[reference |-> Some(<<"Practitioner", Get(assignee).uuid>>),
                         display |-> Get(assignee).display]>>
                 ELSE <<>>
      second == IF hasUuid /\ Get(assignee).type = "role"
                  THEN <<[reference |-> Some(<<"PractitionerRole", Get(assignee).uuid>>),
                          display |-> Get(assignee).display]>>
                  ELSE <<>>
  IN  first \o second

dueKindExtension(code) ==
  [url |-> dueKindUrl, valueCode |-> Some(code), valueString |-> None, valueReference |-> None]

associatedEncounterExtension(visitUuid) ==
  [url |-> associatedEncounterUrl, valueCode |-> None, valueString |-> None,
   valueReference |-> Some([reference |-> Some(<<"Encounter", visitUuid>>)])]

\* buildSchedule writing the resolved date of a visit task as the period's end.
buildScheduleWithVisitEnd(task) ==
  LET dueDate == Prop(task, "dueDate")
      type == IF IsSome(dueDate) THEN Prop(Get(dueDate), "type") ELSE None
      date == IF IsSome(dueDate) THEN Prop(Get(dueDate), "date") ELSE None
      visit == IF IsSome(dueDate) THEN Prop(Get(dueDate), "referenceVisitUuid") ELSE None
  IN  IF type = Some("THIS_VISIT") \/ type = Some("NEXT_VISIT")
        THEN [scheduledPeriod |-> Some([end |-> IF IsSome(date) THEN Some(toISOString(Get(date)))
                                                ELSE None]),
              extension |->
                <<dueKindExtension(IF type = Some("THIS_VISIT") THEN "this-visit" ELSE "next-visit")>>
                \o (IF IsSome(visit) /\ Get(visit) # ""
                      THEN <<associatedEncounterExtension(Get(visit))>> ELSE <<>>)]
      ELSE IF type = Some("DATE") /\ IsSome(date)
        THEN [scheduledPeriod |-> Some([end |-> Some(toISOString(Get(date)))]),
              extension |-> <<dueKindExtension("date")>>]
      ELSE [scheduledPeriod |-> None, extension |-> <<>>]

\* The scheduledPeriod and the extensions buildCarePlan writes for task.dueDate.
buildSchedule(task) ==
  LET dueDate == Prop(task, "dueDate")
      type == IF IsSome(dueDate) THEN Prop(Get(dueDate), "type") ELSE None
      date == IF IsSome(dueDate) THEN Prop(Get(dueDate), "date") ELSE None
      visit == IF IsSome(dueDate) THEN Prop(Get(dueDate), "referenceVisitUuid") ELSE None
  IN  IF type = Some("THIS_VISIT") \/ type = Some("NEXT_VISIT")
        THEN [scheduledPeriod |-> Some([end |-> None]),
              extension |->
                <<dueKindExtension(IF type = Some("THIS_VISIT") THEN "this-visit" ELSE "next-visit")>>
                \o (IF IsSome(visit) /\ Get(visit) # ""
                      THEN <<associatedEncounterExtension(Get(visit))>> ELSE <<>>)]
      ELSE IF type = Some("DATE") /\ IsSome(date)
        THEN [scheduledPeriod |-> Some([end |-> Some(toISOString(Get(date)))]),
              extension |-> <<dueKindExtension("date")>>]
      ELSE [scheduledPeriod |-> None, extension |-> <<>>]

\* defaultStatus with another default: task.status ?? 'in-progress'.
defaultStatusInProgress(status) == IF IsSome(status) THEN status ELSE Some("in-progress")

\* The default of detail.status: task.status ?? 'not-started'.
defaultStatus(status) == IF IsSome(status) THEN status ELSE Some("not-started")

\* carePlan.id: set only if (task.uuid).
carePlanId(task) == IF HasUuid(task) THEN Some(task.uuid) ELSE None

buildCarePlan(patientUuid, task) ==
  LET performer == buildPerformer(task)
      schedule == buildSchedule(task)
      detail == [status |-> defaultStatus(Prop(task, "status")),
                 description |-> IF "name" \in DOMAIN task THEN Some(task.name) ELSE None,
                 performer |-> IF Len(performer) > 0 THEN Some(performer) ELSE None,
                 scheduledPeriod |-> schedule.scheduledPeriod,
                 extension |-> Some(schedule.extension)]
  IN  [resourceType |-> "CarePlan",
       status |-> IF IsCompleted(task) THEN "completed" ELSE "active",
       intent |-> "plan",
       description |-> Prop(task, "rationale"),
       subject |-> [reference |-> <<"Patient", patientUuid>>],
       activity |-> <<[detail |-> Some(detail)]>>,
       id |-> carePlanId(task),
       created |-> None,
       author |-> None]

----------------------------------------------------------------------------
(* task-list.resource: the list hook *)

\* a.dueDate?.date?.getTime() ?? 0
dueTime(task) ==
  LET dueDate == Prop(task, "dueDate")
      date == IF IsSome(dueDate) THEN Prop(Get(dueDate), "date") ELSE None
  IN  IF IsSome(date) THEN Get(date) ELSE 0

\* compareTasks with the due dates subtracted the other way round.
compareTasksDescending(a, b) ==
  IF a.completed # b.completed
    THEN (IF a.completed THEN 1 ELSE -1)
    ELSE dueTime(b) - dueTime(a)

\* The comparator handed to Array.prototype.sort.
compareTasks(a, b) ==
  IF a.completed # b.completed
    THEN (IF a.completed THEN 1 ELSE -1)
    ELSE dueTime(a) - dueTime(b)

\* Array.prototype.sort is stable: an element goes after every element that
\* does not compare greater than it.
RECURSIVE insertSorted(_, _)
insertSorted(sorted, t) ==
  IF sorted = <<>> THEN <<t>>
  ELSE IF compareTasks(Head(sorted), t) > 0 THEN <<t>> \o sorted
  ELSE <<Head(sorted)>> \o insertSorted(Tail(sorted), t)

RECURSIVE sortTasks(_)
sortTasks(ts) ==
  IF ts = <<>> THEN <<>>
  ELSE insertSorted(sortTasks(SubSeq(ts, 1, Len(ts) - 1)), ts[Len(ts)])

\* isActiveTask comparing with the American spelling.
isActiveTaskMisspelt(task) == task.status # Some("canceled")

\* The filter of activeTasks.
isActiveTask(task) == task.status # Some("cancelled")

\* The filter of validTasks.
isValidTask(task) == task.uuid # ""

\* data is the SWR data: None while nothing was fetched.
useTaskList(swrData) ==
  LET entries == IF IsSome(swrData) THEN Get(swrData) ELSE <<>>
      parsedTasks == [i \in 1..Len(entries) |-> createTaskFromCarePlan(entries[i])]
      validTasks == SelectSeq(parsedTasks, isValidTask)
      activeTasks == SelectSeq(validTasks, isActiveTask)
  IN  sortTasks(activeTasks)

----------------------------------------------------------------------------
(* task-list.resource: the mutation functions.  A request is the call of    *)
(* openmrsFetch: its method, the path below {base}/tasks and its JSON body. *)

saveTask(patientUuid, task) ==
  [method |-> "POST", url |-> <<"careplan">>, body |-> buildCarePlan(patientUuid, task)]

updateTask(patientUuid, task) ==
  [method |-> "PUT", url |-> <<"careplan", task.uuid>>, body |-> buildCarePlan(patientUuid, task)]

\* toggleStatus resetting an un-completed task to 'not-started'.
toggleStatusReset(task, completed) == IF completed THEN "completed" ELSE "not-started"

\* The status toggleTaskCompletion computes.
toggleStatus(task, completed) ==
  IF completed THEN "completed"
  ELSE IF IsSome(task.status) /\ Get(task.status) # "" /\ Get(task.status) # "completed"
    THEN Get(task.status)
  ELSE "in-progress"

\* The task toggleTaskCompletion hands to updateTask.
toggleTaskCompletionTask(task, completed) ==
  Spread(task, [completed |-> completed, status |-> Some(toggleStatus(task, completed))])

toggleTaskCompletion(patientUuid, task, completed) ==
  updateTask(patientUuid, toggleTaskCompletionTask(task, completed))

\* deleteTaskTask with the CarePlan status code of FHIR R4 for a cancelled plan.
deleteTaskTaskRevoked(task) == Spread(task, [status |-> Some("revoked")])

\* The task deleteTask hands to updateTask.
deleteTaskTask(task) == Spread(task, [status |-> Some("cancelled")])

deleteTask(patientUuid, task) == updateTask(patientUuid, deleteTaskTask(task))

----------------------------------------------------------------------------
(* add-task-form: the schema and the submission handler *)

defaultValues ==
  [taskName |-> <<>>, dueDateType |-> None, dueDate |-> None, rationale |-> <<>>,
   assignee |-> None, assigneeRole |-> None, priority |-> None]

\* taskName: z.string().min(1)
taskNameValid(taskName) == Len(taskName) >= 1

\* The paths of the issues the zod schema reports for values.
schemaErrors(values) ==
  (IF taskNameValid(values.taskName) THEN {} ELSE {"taskName"})
  \cup (IF IsSome(values.assignee) /\ IsSome(values.assigneeRole) THEN {"assigneeRole"} ELSE {})
  \cup (IF values.dueDateType # Some("DATE") \/ (IsSome(values.dueDate) /\ Get(values.dueDate) # "")
          THEN {} ELSE {"dueDate"})

\* The assignee handleFormSubmission derives from the two fields.
formAssignee(values) ==
  IF IsSome(values.assignee)
    THEN Some([uuid |-> Get(values.assignee).id, display |-> Get(values.assignee).label,
               type |-> "person"])
  ELSE IF IsSome(values.assigneeRole)
    THEN Some([uuid |-> Get(values.assigneeRole).id, display |-> Get(values.assigneeRole).label,
               type |-> "role"])
  ELSE None

\* The keys both branches of handleFormSubmission set from the form values.
\* activeVisit and referenceVisit are the visit uuids of useVisit and
\* useReferenceVisit, if any.
formTaskFields(values, activeVisit, referenceVisit) ==
  LET visitUuid == IF values.dueDateType = Some("THIS_VISIT") THEN activeVisit
                   ELSE IF values.dueDateType = Some("NEXT_VISIT") THEN referenceVisit
                   ELSE None
      rationale == trim(values.rationale)
  IN  [name |-> trim(values.taskName),
       dueDate |-> Some([type |-> values.dueDateType,
                         date |-> parseDate(values.dueDate),
                         referenceVisitUuid |-> visitUuid]),
       rationale |-> IF rationale # <<>> THEN Some(rationale) ELSE None,
       assignee |-> formAssignee(values),
       priority |-> values.priority]

\* The call handleFormSubmission makes: updateTask of the loaded task with the
\* form's keys in edit mode, saveTask of the payload otherwise.
handleFormSubmission(values, isEditMode, existingTask, activeVisit, referenceVisit) ==
  LET fields == formTaskFields(values, activeVisit, referenceVisit)
  IN  IF isEditMode /\ IsSome(existingTask)
        THEN [op |-> "edit", task |-> Spread(Get(existingTask), fields),
              req |-> updateTask(PatientUuid, Spread(Get(existingTask), fields))]
        ELSE [op |-> "create", task |-> fields, req |-> saveTask(PatientUuid, fields)]

----------------------------------------------------------------------------
(* The CarePlan store the requests go to *)

Uuid(i) == "u" \o ToString(i)

\* What the store sets itself on creation.
serverCreated == Some(toISOString(0))
serverAuthor == Some([reference |-> Some(<<"Practitioner", "p0">>), display |-> Some("Dr O")])

\* POST {base}/tasks/careplan: the store assigns the id.
storePost(store, body) ==
  LET id == Uuid(Cardinality(DOMAIN store) + 1)
  IN  [u \in (DOMAIN store) \cup {id} |->
         IF u = id THEN [body EXCEPT !.id = Some(id), !.created = serverCreated,
                                     !.author = serverAuthor]
         ELSE store[u]]

\* storePut keeping a completed plan completed whatever the body says.
storePutKeepingCompletion(store, uuid, body) ==
  [store EXCEPT ![uuid] = [body EXCEPT !.id = Some(uuid), !.created = store[uuid].created,
                                       !.author = store[uuid].author,
                                       !.status = IF store[uuid].status = "completed"
                                                    THEN "completed" ELSE @]]

\* PUT {base}/tasks/careplan/{uuid}: full replace; the provenance stays.
storePut(store, uuid, body) ==
  [store EXCEPT ![uuid] = [body EXCEPT !.id = Some(uuid), !.created = store[uuid].created,
                                       !.author = store[uuid].author]]

\* GET {base}/tasks/careplan?subject=Patient/{uuid}: the entries in id order.
listResponse(store) == [i \in 1..Cardinality(DOMAIN store) |-> store[Uuid(i)]]

\* The store after a request.
storeApply(store, req) ==
  IF req.method = "POST" THEN storePost(store, req.body)
  ELSE IF req.method = "PUT" /\ Len(req.url) = 2 /\ req.url[2] \in DOMAIN store
    THEN storePut(store, req.url[2], req.body)
  ELSE store

----------------------------------------------------------------------------
(* The workspace: list view, details view, add/edit form, delete modal *)

\* lastReq: the handler that ran last (op), the task it handed to saveTask or
\* updateTask, the request, the fetched CarePlan the task was decoded from
\* (source), the completed argument of a toggle, and in the resource
\* specification the call before it on the same task (prior).
NoPrior == [op |-> "none", completed |-> None, status |-> None]

NoReq ==
  [op |-> "none", task |-> None, req |-> None, source |-> None, completed |-> None,
   prior |-> NoPrior]

Request(op, task, req, source, completed) ==
  [op |-> op, task |-> Some(task), req |-> Some(req), source |-> source,
   completed |-> completed, prior |-> NoPrior]

\* What the views know of the patient's visits (useVisit, useReferenceVisit).
activeVisit == Some("v1")
referenceVisit == Some("v0")

\* The form values submitted in the workspace.
DateForm ==
  [taskName |-> <<"A">>, dueDateType |-> Some("DATE"), dueDate |-> Some(toISOString(1)),
   rationale |-> <<"w">>, assignee |-> Some([id |-> "p1", label |-> Some("Dr P")]),
   assigneeRole |-> None, priority |-> None]

VisitForm ==
  [taskName |-> <<"A">>, dueDateType |-> Some("THIS_VISIT"), dueDate |-> None,
   rationale |-> <<"w">>, assignee |-> None,
   assigneeRole |-> Some([id |-> "r1", label |-> Some("Nurse")]), priority |-> None]

SubmittedForms == {DateForm, VisitForm}

\* The entry of the list response a listed task was decoded from.
entryOf(swrData, uuid) ==
  Get(swrData)[CHOOSE k \in 1..Len(Get(swrData)) : Get(swrData)[k].id = Some(uuid)]

Init ==
  /\ server = <<>>
  /\ data = None
  /\ tasks = <<>>
  /\ held = None
  /\ form = defaultValues
  /\ formErrors = {}
  /\ lastReq = NoReq
  /\ editTaskUuid = None
  /\ heldError = None
  /\ effects = <<>>
  /\ view = "list"
  /\ selectedTaskUuid = None
  /\ pendingUpdates = {}
  /\ inFlight = <<>>

\* useTaskList's fetch resolves (first load or a revalidation).
FetchList ==
  /\ data' = Some(listResponse(server))
  /\ tasks' = useTaskList(data')
  /\ UNCHANGED <<server, held, form, formErrors, lastReq, editTaskUuid, heldError, effects, workspaceVars>>

\* handleTaskClick: the details view mounts and useTask's fetch resolves.
OpenDetails(i) ==
  /\ i \in 1..Len(tasks)
  /\ tasks[i].uuid \in DOMAIN server
  /\ held' = Some(server[tasks[i].uuid])
  /\ UNCHANGED <<server, data, tasks, form, formErrors, lastReq, editTaskUuid, heldError, effects, workspaceVars>>

\* handleBackClick from the details view.
BackToList ==
  /\ IsSome(held)
  /\ held' = None
  /\ UNCHANGED <<server, data, tasks, form, formErrors, lastReq, editTaskUuid, heldError, effects, workspaceVars>>

\* The add form submitted with valid values: saveTask, then mutate(list key).
SubmitCreate(values) ==
  /\ Cardinality(DOMAIN server) < MaxTasks
  /\ schemaErrors(values) = {}
  /\ LET call == handleFormSubmission(values, FALSE, None, activeVisit, referenceVisit)
     IN  /\ server' = storeApply(server, call.req)
         /\ lastReq' = Request(call.op, call.task, call.req, None, None)
  /\ data' = Some(listResponse(server'))
  /\ tasks' = useTaskList(data')
  /\ UNCHANGED <<held, form, formErrors, editTaskUuid, heldError, effects, workspaceVars>>

\* The edit form of the selected task submitted with valid values: updateTask
\* of the task useTask returned, then mutate(list key).
SubmitEdit(values) ==
  /\ IsSome(held)
  /\ schemaErrors(values) = {}
  /\ LET call == handleFormSubmission(values, TRUE, Some(createTaskFromCarePlan(Get(held))),
                                      activeVisit, referenceVisit)
     IN  /\ server' = storeApply(server, call.req)
         /\ lastReq' = Request(call.op, call.task, call.req, held, None)
  /\ data' = Some(listResponse(server'))
  /\ tasks' = useTaskList(data')
  /\ UNCHANGED <<held, form, formErrors, editTaskUuid, heldError, effects, workspaceVars>>

\* handleToggle of the list view: the checkbox of tasks[i] changes, then mutate().
ToggleFromList(i) ==
  /\ i \in 1..Len(tasks)
  /\ LET task == tasks[i]
         checked == ~task.completed
         req == toggleTaskCompletion(PatientUuid, task, checked)
     IN  /\ server' = storeApply(server, req)
         /\ lastReq' = Request("toggle", toggleTaskCompletionTask(task, checked), req,
                              Some(entryOf(data, task.uuid)), Some(checked))
  /\ data' = Some(listResponse(server'))
  /\ tasks' = useTaskList(data')
  /\ UNCHANGED <<held, form, formErrors, editTaskUuid, heldError, effects, workspaceVars>>

\* handleToggleCompletion of the details view: the button shown for the task,
\* then mutate() of the task and of the list key.
ToggleFromDetails ==
  /\ IsSome(held)
  /\ LET task == createTaskFromCarePlan(Get(held))
         completed == ~task.completed
         req == toggleTaskCompletion(PatientUuid, task, completed)
     IN  /\ server' = storeApply(server, req)
         /\ lastReq' = Request("toggle", toggleTaskCompletionTask(task, completed), req,
                              held, Some(completed))
         /\ held' = Some(server'[task.uuid])
  /\ data' = Some(listResponse(server'))
  /\ tasks' = useTaskList(data')
  /\ UNCHANGED <<form, formErrors, editTaskUuid, heldError, effects, workspaceVars>>

\* handleDelete of the details view: deleteTask, mutate(list key), then
\* onBack leaves the details view.
DeleteFromDetails ==
  /\ IsSome(held)
  /\ LET task == createTaskFromCarePlan(Get(held))
         req == deleteTask(PatientUuid, task)
     IN  /\ server' = storeApply(server, req)
         /\ lastReq' = Request("delete", deleteTaskTask(task), req, held, None)
  /\ held' = None
  /\ data' = Some(listResponse(server'))
  /\ tasks' = useTaskList(data')
  /\ UNCHANGED <<form, formErrors, editTaskUuid, heldError, effects, workspaceVars>>

Next ==
  \/ FetchList
  \/ \E i \in 1..MaxTasks : OpenDetails(i)
  \/ BackToList
  \/ \E values \in SubmittedForms : SubmitCreate(values)
  \/ \E values \in SubmittedForms : SubmitEdit(values)
  \/ \E i \in 1..MaxTasks : ToggleFromList(i)
  \/ ToggleFromDetails
  \/ DeleteFromDetails

Spec == Init /\ [][Next]_vars

----------------------------------------------------------------------------
(* The list hook on the responses a CarePlan store can give *)

\* A CarePlan as another producer may have stored it.
WirePlan(id, status, detailStatus, performer, scheduledPeriod, extension) ==
  [resourceType |-> "CarePlan", status |-> status, intent |-> "plan", description |-> None,
   subject |-> [reference |-> <<"Patient", PatientUuid>>],
   activity |-> <<[detail |-> Some([status |-> detailStatus, description |-> Some(<<"A">>),
                                    performer |-> performer, scheduledPeriod |-> scheduledPeriod,
                                    extension |-> extension])]>>,
   id |-> id, created |-> serverCreated, author |-> serverAuthor]

periodEnding(end) == IF IsSome(end) THEN Some([end |-> Some(toISOString(Get(end)))]) ELSE None

ListShapes ==
  [status : {"active", "cancelled"},
   detailStatus : {"not-started", "completed", "cancelled"},
   end : {None} \cup {Some(t) : t \in Times},
   hasId : {TRUE}]
  \cup {[status |-> "active", detailStatus |-> "not-started", end |-> None, hasId |-> FALSE]}

ListResponses ==
  UNION {[1..n -> ListShapes] : n \in 0..MaxEntries}

listEntries(shapes) ==
  [i \in 1..Len(shapes) |->
     WirePlan(IF shapes[i].hasId THEN Some(Uuid(i)) ELSE None, shapes[i].status,
              Some(shapes[i].detailStatus), None, periodEnding(shapes[i].end), None)]

\* useTaskList's first fetch resolves with a response of the store.
ListResolves(shapes) ==
  /\ ~IsSome(data)
  /\ data' = Some(listEntries(shapes))
  /\ tasks' = useTaskList(data')
  /\ UNCHANGED <<server, held, form, formErrors, lastReq, editTaskUuid, heldError, effects, workspaceVars>>

\* new Date(d.getFullYear(), d.getMonth(), d.getDate()): the start of d's
\* calendar day, a day being two instants long.
startOfDay(date) == date - (date % 2)

\* isOverdue comparing the instants rather than their calendar days.
isOverdueByInstant(task, now) ==
  IF task.completed \/ ~IsSome(task.dueDate) THEN FALSE
  ELSE LET dueDate == Get(task.dueDate).date
       IN  IF ~IsSome(dueDate) THEN FALSE
           ELSE Get(dueDate) < now

\* isOverdue of the list view, at the instant now.
isOverdue(task, now) ==
  IF task.completed \/ ~IsSome(task.dueDate) THEN FALSE
  ELSE LET dueDate == Get(task.dueDate).date
       IN  IF ~IsSome(dueDate) THEN FALSE
           ELSE startOfDay(Get(dueDate)) < startOfDay(now)

NextList == ~IsSome(data) /\ \E shapes \in ListResponses : ListResolves(shapes)

SpecList == Init /\ [][NextList]_vars

----------------------------------------------------------------------------
(* The resource functions called on one task read from the store *)

ResourcePlans ==
  {WirePlan(Some(Uuid(1)), "active", detailStatus, performer, schedule[1], schedule[2]) :
     detailStatus \in {None, Some("not-started"), Some("in-progress"), Some("completed"),
                       Some("cancelled")},
     performer \in {None,
                    Some(<<[reference |-> Some(<<"Practitioner", "p1">>), display |-> None]>>),
                    Some(<<[reference |-> Some(<<"PractitionerRole", "r1">>), display |-> None]>>)},
     schedule \in {<<None, None>>,
                   <<periodEnding(Some(1)), Some(<<dueKindExtension("date")>>)>>,
                   <<Some([end |-> None]),
                     Some(<<dueKindExtension("this-visit"), associatedEncounterExtension("v1")>>)>>,
                   <<periodEnding(Some(1)), Some(<<dueKindExtension("next-visit")>>)>>,
                   <<None, Some(<<dueKindExtension("date")>>)>>}}

\* The due dates a caller of updateTask can set on a task, by the Task type.
TaskDueDates ==
  {[type |-> Some("DATE"), date |-> Some(1), referenceVisitUuid |-> None]}
  \cup [type : {Some("THIS_VISIT"), Some("NEXT_VISIT")}, date : {None, Some(1)},
        referenceVisitUuid : {None, Some("v1")}]

\* useTask returns the stored CarePlan.
ReadTask(plan) ==
  /\ held' = Some(plan)
  /\ lastReq' = NoReq
  /\ UNCHANGED <<server, data, tasks, form, formErrors, editTaskUuid, heldError, effects, workspaceVars>>

\* The CarePlan read back after the store applied a PUT for the held task.
reread(plan, req) == storeApply(Get(plan).id[1] :> Get(plan), req)[Get(plan).id[1]]

priorOf(req) ==
  [op |-> req.op, completed |-> req.completed,
   status |-> IF IsSome(req.source) THEN createTaskFromCarePlan(Get(req.source)).status ELSE None]

\* toggleTaskCompletion(patientUuid, task, completed), and the task read again.
CallToggle(completed) ==
  /\ IsSome(held)
  /\ LET task == createTaskFromCarePlan(Get(held))
         req == toggleTaskCompletion(PatientUuid, task, completed)
     IN  /\ lastReq' = [Request("toggle", toggleTaskCompletionTask(task, completed), req, held,
                                Some(completed)) EXCEPT !.prior = priorOf(lastReq)]
         /\ held' = Some(reread(held, req))
  /\ UNCHANGED <<server, data, tasks, form, formErrors, editTaskUuid, heldError, effects, workspaceVars>>

\* deleteTask(patientUuid, task), and the task read again.
CallDelete ==
  /\ IsSome(held)
  /\ LET task == createTaskFromCarePlan(Get(held))
         req == deleteTask(PatientUuid, task)
     IN  /\ lastReq' = [Request("delete", deleteTaskTask(task), req, held, None)
                          EXCEPT !.prior = priorOf(lastReq)]
         /\ held' = Some(reread(held, req))
  /\ UNCHANGED <<server, data, tasks, form, formErrors, editTaskUuid, heldError, effects, workspaceVars>>

\* updateTask(patientUuid, task) of the task read with another due date, and
\* the task read again.
CallUpdate(dueDate) ==
  /\ IsSome(held)
  /\ LET task == Spread(createTaskFromCarePlan(Get(held)), [dueDate |-> Some(dueDate)])
         req == updateTask(PatientUuid, task)
     IN  /\ lastReq' = [Request("update", task, req, held, None)
                          EXCEPT !.prior = priorOf(lastReq)]
         /\ held' = Some(reread(held, req))
  /\ UNCHANGED <<server, data, tasks, form, formErrors, editTaskUuid, heldError, effects, workspaceVars>>

NextResource ==
  \/ \E plan \in ResourcePlans : ReadTask(plan)
  \/ \E completed \in BOOLEAN : CallToggle(completed)
  \/ CallDelete
  \/ \E dueDate \in TaskDueDates : CallUpdate(dueDate)

SpecResource == Init /\ [][NextResource]_vars

----------------------------------------------------------------------------
(* The add/edit form on its own: the values the user can bring it to, and   *)
(* the call each submission makes.  lastReq is the outcome of the last      *)
(* submission of the values as they are: a change of a field clears it.     *)

TaskNames == {<<>>, <<" ">>, <<"A">>}
Rationales == {<<>>, <<"w">>}
DueDateTypes == {"NEXT_VISIT", "THIS_VISIT", "DATE"}
ProviderOption == [id |-> "p1", label |-> Some("Dr P")]
ProviderRoleOption == [id |-> "r1", label |-> Some("Nurse")]

\* The tasks the edit form can be opened on.
EditPlans ==
  {WirePlan(Some(Uuid(1)), "active", Some("in-progress"),
            Some(<<[reference |-> Some(<<"Practitioner", "p1">>), display |-> Some("Dr P")]>>),
            periodEnding(Some(1)), Some(<<dueKindExtension("date")>>)),
   WirePlan(Some(Uuid(1)), "completed", Some("completed"),
            Some(<<[reference |-> Some(<<"PractitionerRole", "r1">>), display |-> Some("Nurse")]>>),
            Some([end |-> None]),
            Some(<<dueKindExtension("this-visit"), associatedEncounterExtension("v1")>>))}

\* date.toISOString().split('T')[0]: the day of the instant; a day is two
\* instants long here.
dateOnly(date) == toISOString(date - (date % 2))

\* resetValues leaving the provider role select empty.
resetValuesWithoutRole(existingTask) ==
  LET dueDate == Get(existingTask.dueDate)
      assignee == existingTask.assignee
  IN  [taskName |-> existingTask.name,
       dueDateType |-> dueDate.type,
       dueDate |-> IF dueDate.type = Some("DATE") /\ IsSome(dueDate.date)
                     THEN Some(dateOnly(Get(dueDate.date))) ELSE None,
       rationale |-> IF IsSome(existingTask.rationale) THEN Get(existingTask.rationale) ELSE <<>>,
       assignee |-> IF IsSome(assignee) /\ Get(assignee).type = "person"
                      THEN Some([id |-> Get(assignee).uuid, label |-> Get(assignee).display])
                      ELSE None,
       assigneeRole |-> None,
       priority |-> Prop(existingTask, "priority")]

\* The values the effect resets the form to once the task to edit is loaded.
resetValues(existingTask) ==
  LET dueDate == Get(existingTask.dueDate)
      assignee == existingTask.assignee
  IN  [taskName |-> existingTask.name,
       dueDateType |-> dueDate.type,
       dueDate |-> IF dueDate.type = Some("DATE") /\ IsSome(dueDate.date)
                     THEN Some(dateOnly(Get(dueDate.date))) ELSE None,
       rationale |-> IF IsSome(existingTask.rationale) THEN Get(existingTask.rationale) ELSE <<>>,
       assignee |-> IF IsSome(assignee) /\ Get(assignee).type = "person"
                      THEN Some([id |-> Get(assignee).uuid, label |-> Get(assignee).display])
                      ELSE None,
       assigneeRole |-> IF IsSome(assignee) /\ Get(assignee).type = "role"
                          THEN Some([id |-> Get(assignee).uuid, label |-> Get(assignee).display])
                          ELSE None,
       priority |-> Prop(existingTask, "priority")]

\* The form is opened in edit mode and useTask returns the task at once (the
\* task is in the SWR cache).
OpenEdit(plan) ==
  /\ ~IsSome(editTaskUuid)
  /\ ~IsSome(held)
  /\ form = defaultValues
  /\ editTaskUuid' = plan.id
  /\ held' = Some(plan)
  /\ form' = resetValues(createTaskFromCarePlan(plan))
  /\ lastReq' = NoReq
  /\ UNCHANGED <<server, data, tasks, formErrors, heldError, effects, workspaceVars>>

\* The form is opened in edit mode and useTask has not returned the task yet:
\* existingTask is null and the form shows the default values.
MountEdit(uuid) ==
  /\ ~IsSome(editTaskUuid)
  /\ ~IsSome(held)
  /\ form = defaultValues
  /\ editTaskUuid' = Some(uuid)
  /\ lastReq' = NoReq
  /\ UNCHANGED <<server, data, tasks, held, form, formErrors, heldError, effects, workspaceVars>>

\* useTask's fetch resolves for the form mounted in edit mode: the effect
\* resets the form to the task's values.
EditTaskLoads(plan) ==
  /\ editTaskUuid = plan.id
  /\ ~IsSome(held)
  /\ held' = Some(plan)
  /\ form' = resetValues(createTaskFromCarePlan(plan))
  /\ lastReq' = NoReq
  /\ UNCHANGED <<server, data, tasks, formErrors, editTaskUuid, heldError, effects, workspaceVars>>

\* The task name input changes.
SetTaskName(name) ==
  /\ form' = [form EXCEPT !.taskName = name]
  /\ lastReq' = NoReq
  /\ UNCHANGED <<server, data, tasks, held, formErrors, editTaskUuid, heldError, effects, workspaceVars>>

\* The tab the due-date switcher shows as selected for the field's value:
\* selectedIndex, counted from 0, into validDueDateTypes.
validDueDateTypes == <<"NEXT_VISIT", "THIS_VISIT", "DATE">>

indexOf(array, value) ==
  IF \E i \in 1..Len(array) : Some(array[i]) = value
    THEN (CHOOSE i \in 1..Len(array) :
            Some(array[i]) = value /\ \A j \in 1..(i - 1) : Some(array[j]) # value) - 1
    ELSE -1

selectedIndex(value) ==
  LET idx == indexOf(validDueDateTypes, value)
  IN  IF idx >= 0 THEN idx ELSE 0

selectedSwitch(value) == validDueDateTypes[selectedIndex(value) + 1]

\* The due-date switcher changes.
SetDueDateType(name) ==
  /\ form' = [form EXCEPT !.dueDateType = Some(name),
                           !.dueDate = IF name \in {"NEXT_VISIT", "THIS_VISIT"} THEN None ELSE @]
  /\ lastReq' = NoReq
  /\ UNCHANGED <<server, data, tasks, held, formErrors, editTaskUuid, heldError, effects, workspaceVars>>

\* The date picker, shown for the DATE type, changes: date?.toISOString().
SetDueDate(date) ==
  /\ form.dueDateType = Some("DATE")
  /\ form' = [form EXCEPT !.dueDate = IF IsSome(date) THEN Some(toISOString(Get(date))) ELSE None]
  /\ lastReq' = NoReq
  /\ UNCHANGED <<server, data, tasks, held, formErrors, editTaskUuid, heldError, effects, workspaceVars>>

\* The provider combo box changes.
SelectAssignee(selectedItem) ==
  /\ form' = [form EXCEPT !.assignee = selectedItem,
                           !.assigneeRole = IF IsSome(selectedItem) THEN None ELSE @]
  /\ lastReq' = NoReq
  /\ UNCHANGED <<server, data, tasks, held, formErrors, editTaskUuid, heldError, effects, workspaceVars>>

\* The provider role combo box changes.
SelectAssigneeRole(selectedItem) ==
  /\ form' = [form EXCEPT !.assigneeRole = selectedItem,
                           !.assignee = IF IsSome(selectedItem) THEN None ELSE @]
  /\ lastReq' = NoReq
  /\ UNCHANGED <<server, data, tasks, held, formErrors, editTaskUuid, heldError, effects, workspaceVars>>

\* The rationale text area changes.
SetRationale(text) ==
  /\ form' = [form EXCEPT !.rationale = text]
  /\ lastReq' = NoReq
  /\ UNCHANGED <<server, data, tasks, held, formErrors, editTaskUuid, heldError, effects, workspaceVars>>

\* The system tasks the task name combo box offers: one with no defaults,
\* one with a priority, a rationale and a default assignee role.
SystemTasks ==
  {[title |-> <<"B">>, priority |-> None, rationale |-> None,
    defaultAssigneeRoleUuid |-> None, defaultAssigneeRoleDisplay |-> None],
   [title |-> <<"B">>, priority |-> Some("high"), rationale |-> Some(<<"w">>),
    defaultAssigneeRoleUuid |-> Some("r2"), defaultAssigneeRoleDisplay |-> Some("Lab")]}

\* SelectSystemTask setting the default role beside the provider selected.
SelectSystemTaskKeepingAssignee(selectedItem) ==
  /\ form' = [form EXCEPT
                !.taskName = selectedItem.title,
                !.priority = IF IsSome(selectedItem.priority) THEN selectedItem.priority ELSE @,
                !.rationale = IF IsSome(selectedItem.rationale)
                                THEN Get(selectedItem.rationale) ELSE @,
                !.assigneeRole = IF IsSome(selectedItem.defaultAssigneeRoleUuid)
                                   THEN Some([id |-> Get(selectedItem.defaultAssigneeRoleUuid),
                                              label |-> selectedItem.defaultAssigneeRoleDisplay])
                                   ELSE @]
  /\ lastReq' = NoReq
  /\ UNCHANGED <<server, data, tasks, held, formErrors, editTaskUuid, heldError, effects, workspaceVars>>

\* A system task is selected in the task name combo box: its title becomes
\* the name and its defaults are applied.
SelectSystemTask(selectedItem) ==
  /\ form' = [form EXCEPT
                !.taskName = selectedItem.title,
                !.priority = IF IsSome(selectedItem.priority) THEN selectedItem.priority ELSE @,
                !.rationale = IF IsSome(selectedItem.rationale)
                                THEN Get(selectedItem.rationale) ELSE @,
                !.assigneeRole = IF IsSome(selectedItem.defaultAssigneeRoleUuid)
                                   THEN Some([id |-> Get(selectedItem.defaultAssigneeRoleUuid),
                                              label |-> selectedItem.defaultAssigneeRoleDisplay])
                                   ELSE @,
                !.assignee = IF IsSome(selectedItem.defaultAssigneeRoleUuid) THEN None ELSE @]
  /\ lastReq' = NoReq
  /\ UNCHANGED <<server, data, tasks, held, formErrors, editTaskUuid, heldError, effects, workspaceVars>>

\* The priority combo box changes: selectedItem?.id ?? undefined.
SetPriority(selectedItem) ==
  /\ form' = [form EXCEPT !.priority = selectedItem]
  /\ lastReq' = NoReq
  /\ UNCHANGED <<server, data, tasks, held, formErrors, editTaskUuid, heldError, effects, workspaceVars>>

\* handleSubmit(handleFormSubmission): the resolver rejects the values and the
\* errors are shown, or the handler makes its call and onBack closes the form.
Submit ==
  /\ IF schemaErrors(form) # {}
       THEN /\ formErrors' = schemaErrors(form)
            /\ lastReq' = [NoReq EXCEPT !.op = "blocked"]
            /\ UNCHANGED <<form, held, editTaskUuid>>
       ELSE LET call == handleFormSubmission(
                          form, IsSome(editTaskUuid),
                          IF IsSome(held) THEN Some(createTaskFromCarePlan(Get(held))) ELSE None,
                          activeVisit, referenceVisit)
            IN  /\ lastReq' = Request(call.op, call.task, call.req, held, None)
                /\ formErrors' = {}
                /\ form' = defaultValues
                /\ held' = None
                /\ editTaskUuid' = None
  /\ UNCHANGED <<server, data, tasks, heldError, effects, workspaceVars>>

NextForm ==
  \/ \E plan \in EditPlans : OpenEdit(plan)
  \/ MountEdit(Uuid(1))
  \/ \E plan \in EditPlans : EditTaskLoads(plan)
  \/ \E name \in TaskNames : SetTaskName(name)
  \/ \E name \in DueDateTypes : SetDueDateType(name)
  \/ \E date \in {None, Some(MaxTime)} : SetDueDate(date)
  \/ \E selectedItem \in {None, Some(ProviderOption)} : SelectAssignee(selectedItem)
  \/ \E selectedItem \in {None, Some(ProviderRoleOption)} : SelectAssigneeRole(selectedItem)
  \/ \E text \in Rationales : SetRationale(text)
  \/ \E selectedItem \in {None, Some("high")} : SetPriority(selectedItem)
  \/ \E selectedItem \in SystemTasks : SelectSystemTask(selectedItem)
  \/ Submit

SpecForm == Init /\ [][NextForm]_vars

----------------------------------------------------------------------------
(* The details view on the CarePlans a store can answer useTask with *)

\* The due-kind extension as another producer may have written it: the code
\* in valueString.
dueKindStringExtension(code) ==
  [url |-> dueKindUrl, valueCode |-> None, valueString |-> Some(code), valueReference |-> None]

DueKindExtensions ==
  {None, Some(<<>>), Some(<<dueKindStringExtension("this-visit")>>)}
  \cup {Some(<<dueKindExtension(code)>>) : code \in {"this-visit", "next-visit", "date"}}

DetailsPeriods ==
  {None, Some([end |-> None])} \cup {periodEnding(Some(t)) : t \in Times}

\* A CarePlan with nothing but its id.
BarePlan ==
  [resourceType |-> "CarePlan", status |-> "active", intent |-> "plan", description |-> None,
   subject |-> [reference |-> <<"Patient", PatientUuid>>], activity |-> <<>>,
   id |-> Some(Uuid(1)), created |-> None, author |-> None]

\* The performer entries a store can hold: a practitioner, a practitioner
\* role, another resource, a reference with no id, an entry with no reference.
DetailsPerformers ==
  {[reference |-> Some(<<"Practitioner", "p1">>), display |-> Some("Dr P")],
   [reference |-> Some(<<"PractitionerRole", "r1">>), display |-> None],
   [reference |-> Some(<<"Organization", "o1">>), display |-> Some("Ward")],
   [reference |-> Some(<<"Practitioner", "">>), display |-> None],
   [reference |-> None, display |-> Some("Dr P")]}

PerformerLists == UNION {[1..n -> DetailsPerformers] : n \in 0..MaxPerformers}

DetailsPlans ==
  {[WirePlan(Some(Uuid(1)), "active", Some("not-started"), None, period, extension)
      EXCEPT !.created = Some(toISOString(created))] :
     period \in DetailsPeriods, extension \in DueKindExtensions, created \in Times}
  \cup {WirePlan(Some(Uuid(1)), "active", Some("not-started"), Some(performers), None, None) :
          performers \in PerformerLists}
  \cup {BarePlan,
        [BarePlan EXCEPT !.activity = <<[detail |-> None]>>],
        [BarePlan EXCEPT !.activity =
           <<[detail |-> Some([status |-> None, description |-> None, performer |-> None,
                               scheduledPeriod |-> None, extension |-> None])]>>]}

\* The outcomes of a rejected fetch.
FetchErrors == {"not-found", "network"}

\* What useTask returns for the SWR data and error of its key.
useTask(swrData, swrError) ==
  [task |-> IF IsSome(swrData) THEN Some(createTaskFromCarePlan(Get(swrData))) ELSE None,
   isLoading |-> ~IsSome(swrData) /\ ~IsSome(swrError),
   error |-> swrError]

\* What TaskDetailsView renders for what useTask returned: the loader, the
\* taskLoadError text with the back button, or the task's details.
TaskDetailsView(result) ==
  IF result.isLoading THEN "Loader"
  ELSE IF IsSome(result.error) \/ ~IsSome(result.task) THEN "taskLoadError"
  ELSE "details"

\* isOmrsDateToday and formatDate of the framework, as the details view's
\* tests stub them: the day of the date is the day of today; the day of the
\* date, 'Today' for today's, null for no date.
isOmrsDateToday(date, today) == IsSome(date) /\ dateOnly(Get(date)) = dateOnly(today)

formatDate(date, today) ==
  IF ~IsSome(date) THEN None
  ELSE IF dateOnly(Get(date)) = dateOnly(today) THEN Some("Today")
  ELSE Some(dateOnly(Get(date)))

NoDisplay == [type |-> None, schedulingInfo |-> None, dueDate |-> None]

\* dueDateDisplay showing no due date for a visit task.
dueDateDisplayWithoutVisitDate(task, today) ==
  LET dueDate == Prop(task, "dueDate")
      type == IF IsSome(dueDate) THEN Get(dueDate).type ELSE None
  IN  IF type = Some("DATE")
        THEN [NoDisplay EXCEPT !.type = type, !.dueDate = formatDate(Get(dueDate).date, today)]
      ELSE IF type \in {Some("THIS_VISIT"), Some("NEXT_VISIT")}
        THEN [NoDisplay EXCEPT !.type = type,
                               !.schedulingInfo = Some([wording |-> "today", date |-> None])]
      ELSE NoDisplay

\* dueDateDisplay of the details view.  schedulingInfo is the translated
\* text: its wording (today, or on a date) and the date it names.
dueDateDisplay(task, today) ==
  LET dueDate == Prop(task, "dueDate")
      type == IF IsSome(dueDate) THEN Get(dueDate).type ELSE None
      scheduledToday == isOmrsDateToday(task.createdDate, today)
  IN  IF type = Some("DATE")
        THEN [NoDisplay EXCEPT !.type = type, !.dueDate = formatDate(Get(dueDate).date, today)]
      ELSE IF type \in {Some("THIS_VISIT"), Some("NEXT_VISIT")}
        THEN [NoDisplay EXCEPT
                !.type = type,
                !.schedulingInfo =
                   Some(IF scheduledToday THEN [wording |-> "today", date |-> None]
                        ELSE [wording |-> "on", date |-> formatDate(task.createdDate, today)]),
                !.dueDate = IF IsSome(Get(dueDate).date)
                              THEN formatDate(Get(dueDate).date, today) ELSE None]
      ELSE NoDisplay

\* The Scheduled row and the Due date row of the details.
ScheduledRow(display) == display.type # Some("DATE") /\ IsSome(display.schedulingInfo)
DueDateRow(display) == IsSome(display.dueDate)

\* useTask's fetch resolves with the stored CarePlan.
TaskLoads(plan) ==
  /\ held' = Some(plan)
  /\ heldError' = None
  /\ UNCHANGED <<server, data, tasks, form, formErrors, lastReq, editTaskUuid, effects, workspaceVars>>

\* useTask's fetch is rejected: the store has no such task, or the request
\* fails.  SWR keeps the data it had.
TaskFetchFails(error) ==
  /\ heldError' = Some(error)
  /\ UNCHANGED <<server, data, tasks, held, form, formErrors, lastReq, editTaskUuid, effects, workspaceVars>>

NextDetails ==
  \/ \E plan \in DetailsPlans : TaskLoads(plan)
  \/ \E error \in FetchErrors : TaskFetchFails(error)

SpecDetails == Init /\ [][NextDetails]_vars

----------------------------------------------------------------------------
(* The handlers of the views with the outcome of their request.  An effect  *)
(* is a pair: <<"request", method>>, <<"response", "ok" or "rejected">>,    *)
(* <<"mutate", "list" or "task">> for a revalidation of the list key or of  *)
(* the task key, <<"snackbar", kind>>, <<"call", callback>>.                *)

\* What the store makes of a request: applied and answered, or refused.
Outcomes == {"ok", "rejected"}

\* requestEffects with the request sent again once it was rejected.
requestEffectsRetrying(req, outcome) ==
  IF outcome = "ok" THEN <<<<"request", req.method>>, <<"response", "ok">>>>
  ELSE <<<<"request", req.method>>, <<"response", "rejected">>,
         <<"request", req.method>>, <<"response", "rejected">>>>

\* await openmrsFetch(...): one request, which resolves or rejects.
requestEffects(req, outcome) ==
  <<<<"request", req.method>>,
    <<"response", IF outcome = "ok" THEN "ok" ELSE "rejected">>>>

\* handleFormSubmissionThen reporting success before it revalidates.
handleFormSubmissionThenReportingFirst ==
  <<<<"snackbar", "success">>, <<"mutate", "list">>, <<"call", "onBack">>>>

\* handleFormSubmission after saveTask / updateTask resolved, and its catch.
handleFormSubmissionThen ==
  <<<<"mutate", "list">>, <<"snackbar", "success">>, <<"call", "onBack">>>>
handleFormSubmissionCatch == <<<<"snackbar", "error">>>>

\* handleToggleCatch revalidating the list as well.
handleToggleCatchRevalidating == <<<<"snackbar", "error">>, <<"mutate", "list">>>>

\* handleToggle of the list view after the update resolved, and its catch.
handleToggleThen == <<<<"mutate", "list">>>>
handleToggleCatch == <<<<"snackbar", "error">>>>

\* handleToggleCompletion of the details view.
handleToggleCompletionThen ==
  <<<<"mutate", "task">>, <<"mutate", "list">>, <<"snackbar", "success">>>>
handleToggleCompletionCatch == <<<<"snackbar", "error">>>>

\* handleDelete of the delete modal.
handleDeleteThen ==
  <<<<"mutate", "list">>, <<"call", "closeModal">>, <<"snackbar", "success">>,
    <<"call", "onDeleted">>>>
handleDeleteCatch == <<<<"snackbar", "error">>>>

\* try { await request; ...then } catch { ...catch }
handlerEffects(req, outcome, thenSteps, catchSteps) ==
  requestEffects(req, outcome) \o (IF outcome = "ok" THEN thenSteps ELSE catchSteps)

Occurs(effect, steps) == \E i \in 1..Len(steps) : steps[i] = effect

\* A handler runs: the store takes the request unless it refuses it, and each
\* effect does its part: a revalidation refetches its key, onDeleted is the
\* details view's onBack.
RunHandler(uuid, req, outcome, thenSteps, catchSteps) ==
  /\ server' = IF outcome = "rejected" THEN server ELSE storeApply(server, req)
  /\ effects' = handlerEffects(req, outcome, thenSteps, catchSteps)
  /\ data' = IF Occurs(<<"mutate", "list">>, effects') THEN Some(listResponse(server')) ELSE data
  /\ tasks' = useTaskList(data')
  /\ held' = IF Occurs(<<"call", "onDeleted">>, effects') THEN None
             ELSE IF Occurs(<<"mutate", "task">>, effects') THEN Some(server'[uuid])
             ELSE held
  /\ UNCHANGED <<form, formErrors, lastReq, editTaskUuid, heldError, workspaceVars>>

\* useTaskList's fetch resolves (first load or a revalidation by SWR).
ListRevalidates ==
  /\ data' = Some(listResponse(server))
  /\ tasks' = useTaskList(data')
  /\ effects' = <<>>
  /\ UNCHANGED <<server, held, form, formErrors, lastReq, editTaskUuid, heldError, workspaceVars>>

\* handleTaskClick: the details view mounts and useTask's fetch resolves.
DetailsOpens(i) ==
  /\ i \in 1..Len(tasks)
  /\ tasks[i].uuid \in DOMAIN server
  /\ held' = Some(server[tasks[i].uuid])
  /\ effects' = <<>>
  /\ UNCHANGED <<server, data, tasks, form, formErrors, lastReq, editTaskUuid, heldError, workspaceVars>>

\* handleBackClick from the details view.
DetailsCloses ==
  /\ IsSome(held)
  /\ held' = None
  /\ effects' = <<>>
  /\ UNCHANGED <<server, data, tasks, form, formErrors, lastReq, editTaskUuid, heldError, workspaceVars>>

\* The add form submitted with valid values.
CreateSubmitted(outcome) ==
  /\ Cardinality(DOMAIN server) < MaxTasks
  /\ LET call == handleFormSubmission(DateForm, FALSE, None, activeVisit, referenceVisit)
     IN  RunHandler("", call.req, outcome, handleFormSubmissionThen, handleFormSubmissionCatch)

\* The edit form of the selected task submitted with valid values.
EditSubmitted(outcome) ==
  /\ IsSome(held)
  /\ LET call == handleFormSubmission(VisitForm, TRUE, Some(createTaskFromCarePlan(Get(held))),
                                      activeVisit, referenceVisit)
     IN  RunHandler(call.task.uuid, call.req, outcome,
                    handleFormSubmissionThen, handleFormSubmissionCatch)

\* The checkbox of tasks[i] changes in the list view.
ListToggled(i, outcome) ==
  /\ i \in 1..Len(tasks)
  /\ RunHandler(tasks[i].uuid,
                toggleTaskCompletion(PatientUuid, tasks[i], ~tasks[i].completed), outcome,
                handleToggleThen, handleToggleCatch)

\* The complete / incomplete button of the details view is pressed.
DetailsToggled(outcome) ==
  /\ IsSome(held)
  /\ LET task == createTaskFromCarePlan(Get(held))
     IN  RunHandler(task.uuid, toggleTaskCompletion(PatientUuid, task, ~task.completed),
                    outcome, handleToggleCompletionThen, handleToggleCompletionCatch)

\* The delete modal opened from the details view is confirmed.
DeleteConfirmed(outcome) ==
  /\ IsSome(held)
  /\ LET task == createTaskFromCarePlan(Get(held))
     IN  RunHandler(task.uuid, deleteTask(PatientUuid, task), outcome,
                    handleDeleteThen, handleDeleteCatch)

NextHandlers ==
  \/ ListRevalidates
  \/ \E i \in 1..MaxTasks : DetailsOpens(i)
  \/ DetailsCloses
  \/ \E outcome \in Outcomes : CreateSubmitted(outcome)
  \/ \E outcome \in Outcomes : EditSubmitted(outcome)
  \/ \E i \in 1..MaxTasks, outcome \in Outcomes : ListToggled(i, outcome)
  \/ \E outcome \in Outcomes : DetailsToggled(outcome)
  \/ \E outcome \in Outcomes : DeleteConfirmed(outcome)

SpecHandlers == Init /\ [][NextHandlers]_vars

----------------------------------------------------------------------------
(* Two clients on one task *)

\* Each client has its own SWR cache: held is the task useTask returned to the
\* first client, data and tasks are the list of the second client.  The store
\* checks no version: a PUT on a stored plan resolves.
putOutcome(store, req) ==
  IF Len(req.url) = 2 /\ req.url[2] \in DOMAIN store THEN "ok" ELSE "rejected"

\* A PUT reaches the store.
RacePut(op, task, req, source, completed) ==
  /\ server' = IF putOutcome(server, req) = "ok" THEN storeApply(server, req) ELSE server
  /\ lastReq' = [Request(op, task, req, source, completed) EXCEPT !.prior = priorOf(lastReq)]
  /\ effects' = requestEffects(req, putOutcome(server, req))

\* The task both clients will read is created.
RaceTaskCreated(values) ==
  /\ server = <<>>
  /\ server' = storeApply(server, handleFormSubmission(values, FALSE, None,
                                                       activeVisit, referenceVisit).req)
  /\ UNCHANGED <<data, tasks, held, form, formErrors, lastReq, editTaskUuid, heldError, effects, workspaceVars>>

\* useTask of the first client resolves.
FirstClientReads ==
  /\ Uuid(1) \in DOMAIN server
  /\ held' = Some(server[Uuid(1)])
  /\ UNCHANGED <<server, data, tasks, form, formErrors, lastReq, editTaskUuid, heldError, effects, workspaceVars>>

\* useTaskList of the second client resolves.
SecondClientReads ==
  /\ server # <<>>
  /\ data' = Some(listResponse(server))
  /\ tasks' = useTaskList(data')
  /\ UNCHANGED <<server, held, form, formErrors, lastReq, editTaskUuid, heldError, effects, workspaceVars>>

\* The first client submits its edit form: updateTask of the task it read. The
\* form revalidates the list key only, so the task it holds stays as read.
FirstClientEdits(values) ==
  /\ IsSome(held)
  /\ LET call == handleFormSubmission(values, TRUE, Some(createTaskFromCarePlan(Get(held))),
                                      activeVisit, referenceVisit)
     IN  RacePut(call.op, call.task, call.req, held, None)
  /\ UNCHANGED <<data, tasks, held, form, formErrors, editTaskUuid, heldError, workspaceVars>>

\* The first client deletes the task it read.
FirstClientDeletes ==
  /\ IsSome(held)
  /\ LET task == createTaskFromCarePlan(Get(held))
     IN  RacePut("delete", deleteTaskTask(task), deleteTask(PatientUuid, task), held, None)
  /\ UNCHANGED <<data, tasks, held, form, formErrors, editTaskUuid, heldError, workspaceVars>>

\* The second client changes the checkbox of a task of its list: handleToggle,
\* then mutate() of its list.
SecondClientToggles(i) ==
  /\ i \in 1..Len(tasks)
  /\ LET task == tasks[i]
         checked == ~task.completed
     IN  RacePut("toggle", toggleTaskCompletionTask(task, checked),
                 toggleTaskCompletion(PatientUuid, task, checked),
                 Some(entryOf(data, task.uuid)), Some(checked))
  /\ data' = Some(listResponse(server'))
  /\ tasks' = useTaskList(data')
  /\ UNCHANGED <<held, form, formErrors, editTaskUuid, heldError, workspaceVars>>

NextRace ==
  \/ \E values \in SubmittedForms : RaceTaskCreated(values)
  \/ FirstClientReads
  \/ SecondClientReads
  \/ \E values \in SubmittedForms : FirstClientEdits(values)
  \/ FirstClientDeletes
  \/ \E i \in 1..MaxTasks : SecondClientToggles(i)

SpecRace == Init /\ [][NextRace]_vars

----------------------------------------------------------------------------
(* The workspace with its handlers in flight: a handler call is issued,     *)
(* its request is answered, the revalidation after it settles.  Between     *)
(* these steps the user goes on using the workspace.  The delete modal,     *)
(* which covers the workspace while it is open, is left to the handlers     *)
(* above.                                                                   *)

MaxInFlight == 2   \* handler calls in flight at most

Views == {"list", "form", "details", "edit"}
Revalidated == {"ok", "failed"}

RemoveAt(entries, k) == SubSeq(entries, 1, k - 1) \o SubSeq(entries, k + 1, Len(entries))

\* TaskListView unmounts: its pendingUpdates state is gone, and the setters
\* its handlers in flight hold no longer reach a mounted component.
unmounted(entries) ==
  [k \in 1..Len(entries) |->
     IF entries[k].handler = "toggle" THEN [entries[k] EXCEPT !.mounted = FALSE] ELSE entries[k]]

\* setView(newView) with the calls in flight and the pending updates as the
\* step leaves them: leaving 'list' unmounts TaskListView, and the instance
\* mounted on the way back starts with an empty pendingUpdates.
setView(newView, entries, pending) ==
  /\ view' = newView
  /\ IF view = "list" /\ newView # "list"
       THEN /\ pendingUpdates' = {}
            /\ inFlight' = unmounted(entries)
       ELSE /\ pendingUpdates' = pending
            /\ inFlight' = entries

\* The steps after the awaited mutate of the list key, which resolves whether
\* or not the refetch succeeded: SWR keeps a failed revalidation as the
\* hook's error.
afterRevalidationRejecting(thenSteps, catchSteps, revalidation) ==
  IF revalidation = "failed" THEN <<Head(thenSteps)>> \o catchSteps ELSE thenSteps

afterRevalidation(thenSteps, catchSteps, revalidation) == thenSteps

\* The add button of the list view.
OpenAddForm ==
  /\ view = "list"
  /\ setView("form", inFlight, pendingUpdates)
  /\ UNCHANGED <<server, data, tasks, held, form, formErrors, lastReq, editTaskUuid, heldError,
                 effects, selectedTaskUuid>>

\* handleTaskClick: a tile of the list view is clicked.
handleTaskClick(i) ==
  /\ view = "list"
  /\ i \in 1..Len(tasks)
  /\ selectedTaskUuid' = Some(tasks[i].uuid)
  /\ setView("details", inFlight, pendingUpdates)
  /\ UNCHANGED <<server, data, tasks, held, form, formErrors, lastReq, editTaskUuid, heldError,
                 effects>>

\* handleEdit: the edit button of the details view, with the task it shows.
handleEdit ==
  /\ view = "details"
  /\ IsSome(selectedTaskUuid)
  /\ Get(selectedTaskUuid) \in DOMAIN server
  /\ selectedTaskUuid' = Some(createTaskFromCarePlan(server[Get(selectedTaskUuid)]).uuid)
  /\ setView("edit", inFlight, pendingUpdates)
  /\ UNCHANGED <<server, data, tasks, held, form, formErrors, lastReq, editTaskUuid, heldError,
                 effects>>

\* handleBackClick: the back button above the form, the details and the edit
\* form.
handleBackClick ==
  /\ view \in {"form", "details", "edit"}
  /\ IF view = "edit"
       THEN /\ setView("details", inFlight, pendingUpdates)
            /\ UNCHANGED selectedTaskUuid
       ELSE /\ setView("list", inFlight, pendingUpdates)
            /\ selectedTaskUuid' = None
  /\ UNCHANGED <<server, data, tasks, held, form, formErrors, lastReq, editTaskUuid, heldError,
                 effects>>

\* The view the form's onBack prop sets: () => setView('list') for the add
\* form, handleEditComplete for the edit form.
onBackView(handler) == IF handler = "edit" THEN "details" ELSE "list"

\* The discard / cancel button of the form: onBack.
FormDiscarded ==
  /\ view \in {"form", "edit"}
  /\ setView(onBackView(IF view = "edit" THEN "edit" ELSE "create"), inFlight, pendingUpdates)
  /\ UNCHANGED <<server, data, tasks, held, form, formErrors, lastReq, editTaskUuid, heldError,
                 effects, selectedTaskUuid>>

\* useTaskList's fetch resolves for the mounted list view.
WorkspaceListLoads ==
  /\ view = "list"
  /\ data # Some(listResponse(server))
  /\ data' = Some(listResponse(server))
  /\ tasks' = useTaskList(data')
  /\ UNCHANGED <<server, held, form, formErrors, lastReq, editTaskUuid, heldError, effects,
                 workspaceVars>>

\* A call of a handler, awaiting the answer to req.
Call(handler, uuid, req) ==
  [handler |-> handler, uuid |-> uuid, req |-> req, phase |-> "request", mounted |-> TRUE]

CreatesInFlight ==
  Cardinality({k \in 1..Len(inFlight) :
                 inFlight[k].handler = "create" /\ inFlight[k].phase = "request"})

\* The submit button of the add form with valid values: handleFormSubmission
\* runs up to its await of saveTask.
CreateIssued ==
  /\ view = "form"
  /\ Len(inFlight) < MaxInFlight
  /\ Cardinality(DOMAIN server) + CreatesInFlight < MaxTasks
  /\ LET call == handleFormSubmission(DateForm, FALSE, None, activeVisit, referenceVisit)
     IN  inFlight' = Append(inFlight, Call("create", "", call.req))
  /\ UNCHANGED <<server, data, tasks, held, form, formErrors, lastReq, editTaskUuid, heldError,
                 effects, view, selectedTaskUuid, pendingUpdates>>

\* The submit button of the edit form of the selected task, loaded, with valid
\* values: handleFormSubmission runs up to its await of updateTask.
EditIssued ==
  /\ view = "edit"
  /\ IsSome(selectedTaskUuid)
  /\ Get(selectedTaskUuid) \in DOMAIN server
  /\ Len(inFlight) < MaxInFlight
  /\ LET existingTask == createTaskFromCarePlan(server[Get(selectedTaskUuid)])
         call == handleFormSubmission(VisitForm, TRUE, Some(existingTask),
                                      activeVisit, referenceVisit)
     IN  inFlight' = Append(inFlight, Call("edit", existingTask.uuid, call.req))
  /\ UNCHANGED <<server, data, tasks, held, form, formErrors, lastReq, editTaskUuid, heldError,
                 effects, view, selectedTaskUuid, pendingUpdates>>

\* The checkbox of tasks[i], enabled, changes: handleToggle adds the uuid to
\* pendingUpdates and runs up to its await of toggleTaskCompletion.
ToggleIssued(i) ==
  /\ view = "list"
  /\ i \in 1..Len(tasks)
  /\ tasks[i].uuid \notin pendingUpdates
  /\ Len(inFlight) < MaxInFlight
  /\ pendingUpdates' = pendingUpdates \cup {tasks[i].uuid}
  /\ inFlight' = Append(inFlight,
                        Call("toggle", tasks[i].uuid,
                             toggleTaskCompletion(PatientUuid, tasks[i], ~tasks[i].completed)))
  /\ UNCHANGED <<server, data, tasks, held, form, formErrors, lastReq, editTaskUuid, heldError,
                 effects, view, selectedTaskUuid>>

thenStepsOf(handler) ==
  IF handler = "toggle" THEN handleToggleThen ELSE handleFormSubmissionThen

catchStepsOf(handler) ==
  IF handler = "toggle" THEN handleToggleCatch ELSE handleFormSubmissionCatch

\* finally { removePendingUpdate(task.uuid) } of handleToggle: the setter
\* reaches the instance that made the call, if it is still mounted.
afterFinally(call, pending) ==
  IF call.handler = "toggle" /\ call.mounted THEN pending \ {call.uuid} ELSE pending

\* The request of the call at k is answered.  Resolved, the store has applied
\* it and the handler awaits mutate of the list key; rejected, the handler
\* runs its catch and finally blocks and ends.
ResponseArrives(k, outcome) ==
  /\ k \in 1..Len(inFlight)
  /\ inFlight[k].phase = "request"
  /\ IF outcome = "ok"
       THEN /\ server' = storeApply(server, inFlight[k].req)
            /\ inFlight' = [inFlight EXCEPT ![k].phase = "revalidate"]
            /\ UNCHANGED <<effects, pendingUpdates>>
       ELSE /\ effects' = handlerEffects(inFlight[k].req, outcome, thenStepsOf(inFlight[k].handler),
                                         catchStepsOf(inFlight[k].handler))
            /\ pendingUpdates' = afterFinally(inFlight[k], pendingUpdates)
            /\ inFlight' = RemoveAt(inFlight, k)
            /\ UNCHANGED server
  /\ UNCHANGED <<data, tasks, held, form, formErrors, lastReq, editTaskUuid, heldError,
                 view, selectedTaskUuid>>

\* The revalidation awaited by the call at k settles and the handler runs to
\* its end: the success notification and onBack of the form, the finally
\* block of handleToggle.
RevalidationSettles(k, revalidation) ==
  /\ k \in 1..Len(inFlight)
  /\ inFlight[k].phase = "revalidate"
  /\ data' = IF revalidation = "ok" THEN Some(listResponse(server)) ELSE data
  /\ tasks' = useTaskList(data')
  /\ LET call == inFlight[k]
         steps == afterRevalidation(thenStepsOf(call.handler), catchStepsOf(call.handler),
                                    revalidation)
     IN  /\ effects' = requestEffects(call.req, "ok") \o <<Head(steps)>>
                         \o <<<<"revalidation", revalidation>>>> \o Tail(steps)
         /\ IF Occurs(<<"call", "onBack">>, steps)
              THEN setView(onBackView(call.handler), RemoveAt(inFlight, k),
                           afterFinally(call, pendingUpdates))
              ELSE /\ inFlight' = RemoveAt(inFlight, k)
                   /\ pendingUpdates' = afterFinally(call, pendingUpdates)
                   /\ UNCHANGED view
  /\ UNCHANGED <<server, held, form, formErrors, lastReq, editTaskUuid, heldError,
                 selectedTaskUuid>>

NextWorkspace ==
  \/ OpenAddForm
  \/ \E i \in 1..MaxTasks : handleTaskClick(i)
  \/ handleEdit
  \/ handleBackClick
  \/ FormDiscarded
  \/ WorkspaceListLoads
  \/ CreateIssued
  \/ EditIssued
  \/ \E k \in 1..MaxInFlight, outcome \in Outcomes : ResponseArrives(k, outcome)
  \/ \E k \in 1..MaxInFlight, revalidation \in Revalidated : RevalidationSettles(k, revalidation)

SpecWorkspace == Init /\ [][NextWorkspace]_vars

\* The list view with its checkboxes: tasks are added, toggled, and looked at
\* in the details view while toggles are in flight.
NextListView ==
  \/ OpenAddForm
  \/ \E i \in 1..MaxTasks : handleTaskClick(i)
  \/ handleBackClick
  \/ WorkspaceListLoads
  \/ CreateIssued
  \/ \E i \in 1..MaxTasks : ToggleIssued(i)
  \/ \E k \in 1..MaxInFlight, outcome \in Outcomes : ResponseArrives(k, outcome)
  \/ \E k \in 1..MaxInFlight, revalidation \in Revalidated : RevalidationSettles(k, revalidation)

SpecListView == Init /\ [][NextListView]_vars

----------------------------------------------------------------------------
(* What the claims read off a state *)

ReqTask == Get(lastReq.task)
ReqBody == Get(lastReq.req).body
ReqDetail == Get(ReqBody.activity[1].detail)
SourcePlan == Get(lastReq.source)
SourceDetail == Get(SourcePlan.activity[1].detail)

detailOf(plan) == Get(plan.activity[1].detail)

extensionsOf(detail, url) ==
  SelectSeq(IF IsSome(detail.extension) THEN Get(detail.extension) ELSE <<>>,
            LAMBDA ext : ext.url = url)

ListedUuids == {tasks[i].uuid : i \in 1..Len(tasks)}

\* The list data is what the store holds now.
ListIsCurrent == data = Some(listResponse(server))

----------------------------------------------------------------------------
(* C1 *)

\* C1: the CarePlan of every request has at most one performer entry,
\* whatever the task's assignee (absent, person or role).
C1_AtMostOnePerformer ==
  IsSome(lastReq.req) =>
    (~IsSome(ReqDetail.performer) \/ Len(Get(ReqDetail.performer)) <= 1)

----------------------------------------------------------------------------
(* C2 *)

IsVisitType(type) == type = Some("THIS_VISIT") \/ type = Some("NEXT_VISIT")

\* name, status, rationale, assignee and dueDate are all there, the due date
\* with what its tag needs: a date for DATE, a reference visit for the visits.
AllOptionalFieldsPopulated(task) ==
  /\ HasUuid(task)
  /\ task.name # <<>>
  /\ IsSome(Prop(task, "status"))
  /\ IsSome(Prop(task, "rationale"))
  /\ IsSome(Prop(task, "assignee"))
  /\ IsSome(Prop(task, "dueDate"))
  /\ LET dueDate == Get(task.dueDate)
     IN  \/ dueDate.type = Some("DATE") /\ IsSome(dueDate.date)
         \/ IsVisitType(dueDate.type) /\ IsSome(Prop(dueDate, "referenceVisitUuid"))

\* decoded equals task in every field meaningful to the due-date tag.
RoundTripEqual(task, decoded) ==
  /\ decoded.uuid = task.uuid
  /\ decoded.name = task.name
  /\ decoded.status = task.status
  /\ decoded.completed = task.completed
  /\ decoded.rationale = task.rationale
  /\ decoded.assignee = task.assignee
  /\ LET a == Get(task.dueDate)
         b == Get(decoded.dueDate)
     IN  /\ b.type = a.type
         /\ Prop(b, "date") = Prop(a, "date")
         /\ IsVisitType(a.type) =>
              Prop(b, "referenceVisitUuid") = Prop(a, "referenceVisitUuid")

\* completed is the derived flag of the data model.
IsConsistentTask(task) == task.completed = (task.status = Some("completed"))

\* C2: a task with all optional fields populated (and completed derived from
\* its status) that is encoded for a request decodes to an equal task.
C2_RoundTrip ==
  (IsSome(lastReq.req) /\ AllOptionalFieldsPopulated(ReqTask) /\ IsConsistentTask(ReqTask)) =>
    RoundTripEqual(ReqTask, createTaskFromCarePlan(ReqBody))

----------------------------------------------------------------------------
(* C3 *)

\* C3: the PUT body of a completion toggle or a delete equals the fetched
\* CarePlan the task was decoded from in every mapped field but the status
\* fields.
C3_UpdateKeepsMappedFields ==
  (lastReq.op \in {"toggle", "delete"} /\ IsSome(lastReq.source)) =>
    /\ ReqDetail.description = SourceDetail.description
    /\ ReqBody.description = SourcePlan.description
    /\ ReqDetail.performer = SourceDetail.performer
    /\ extensionsOf(ReqDetail, dueKindUrl) = extensionsOf(SourceDetail, dueKindUrl)
    /\ extensionsOf(ReqDetail, associatedEncounterUrl)
         = extensionsOf(SourceDetail, associatedEncounterUrl)

----------------------------------------------------------------------------
(* C4 *)

storedStatus(uuid) == detailOf(server[uuid]).status

\* C4: a task the store holds with activity status "cancelled" is in no list
\* fetched from that store, and after the delete handler has run (deleteTask
\* applied, the list revalidated) the deleted task is stored as cancelled and
\* is not listed.
C4_DeletedTaskNotListed ==
  /\ ListIsCurrent =>
       \A uuid \in DOMAIN server :
         storedStatus(uuid) = Some("cancelled") => uuid \notin ListedUuids
  /\ lastReq.op = "delete" =>
       /\ storedStatus(ReqTask.uuid) = Some("cancelled")
       /\ ReqTask.uuid \notin ListedUuids

\* A task was deleted, another one was created afterwards, and the list
\* fetched since shows only the other one.
C4_Witness ==
  /\ lastReq.op = "create"
  /\ ListIsCurrent
  /\ Len(tasks) = 1
  /\ \E uuid \in DOMAIN server :
       storedStatus(uuid) = Some("cancelled") /\ uuid \notin ListedUuids

----------------------------------------------------------------------------
(* C5 *)

ListedFrom(entry) == IsSome(entry.id) /\ Get(entry.id) \in ListedUuids

\* C5 as stated: a CarePlan whose (top-level) status is "cancelled" yields no
\* task of the list, whatever its activity status.
C5_CancelledPlanNotListed ==
  IsSome(data) =>
    \A k \in 1..Len(Get(data)) :
      Get(data)[k].status = "cancelled" => ~ListedFrom(Get(data)[k])

\* C5 amended: a CarePlan whose activity status is "cancelled" yields no task
\* of the list, whatever its other fields (its top-level status, its due
\* date).
C5_CancelledActivityNotListed ==
  IsSome(data) =>
    \A k \in 1..Len(Get(data)) :
      detailOf(Get(data)[k]).status = Some("cancelled") => ~ListedFrom(Get(data)[k])

\* A response with a cancelled activity under an active plan with a due
\* date, and a second entry that is listed.
C5_Witness ==
  /\ IsSome(data)
  /\ Len(Get(data)) = 2
  /\ Get(data)[1].status = "active"
  /\ detailOf(Get(data)[1]).status = Some("cancelled")
  /\ IsSome(detailOf(Get(data)[1]).scheduledPeriod)
  /\ ListedUuids = {Uuid(2)}

----------------------------------------------------------------------------
(* C6 *)

HasDueDate(task) == IsSome(Get(task.dueDate).date)
DueDateOf(task) == Get(Get(task.dueDate).date)

\* The position in the response of the entry a listed task came from.
ResponseIndex(task) == CHOOSE k \in 1..Len(Get(data)) : Get(data)[k].id = Some(task.uuid)

IncompleteFirst ==
  \A i, j \in 1..Len(tasks) : (i < j /\ tasks[i].completed) => tasks[j].completed

\* C6 as stated: incomplete before completed; within a group the due dates
\* do not decrease and no absent due date is after a present one; tasks with
\* equal keys keep the order of the response.
C6_SortedAbsentMinimal ==
  /\ IncompleteFirst
  /\ \A i, j \in 1..Len(tasks) :
       (i < j /\ tasks[i].completed = tasks[j].completed) =>
         /\ (HasDueDate(tasks[i]) /\ HasDueDate(tasks[j])) =>
              DueDateOf(tasks[i]) <= DueDateOf(tasks[j])
         /\ ~(HasDueDate(tasks[i]) /\ ~HasDueDate(tasks[j]))
         /\ ((HasDueDate(tasks[i]) = HasDueDate(tasks[j]))
               /\ (HasDueDate(tasks[i]) => DueDateOf(tasks[i]) = DueDateOf(tasks[j])))
              => ResponseIndex(tasks[i]) < ResponseIndex(tasks[j])

\* The instant a task sorts by: its due date, the epoch when it has none.
SortInstant(task) == IF HasDueDate(task) THEN DueDateOf(task) ELSE 0

\* C6 amended: incomplete before completed; within a group the due instants
\* do not decrease, an absent due date counting as the epoch, so that it is
\* not after any present due date later than the epoch and not before any
\* earlier one; tasks with equal keys keep the order of the response.
C6_SortedAbsentAsEpoch ==
  /\ IncompleteFirst
  /\ \A i, j \in 1..Len(tasks) :
       (i < j /\ tasks[i].completed = tasks[j].completed) =>
         /\ SortInstant(tasks[i]) <= SortInstant(tasks[j])
         /\ (HasDueDate(tasks[i]) /\ ~HasDueDate(tasks[j])) => DueDateOf(tasks[i]) <= 0
         /\ (~HasDueDate(tasks[i]) /\ HasDueDate(tasks[j])) => DueDateOf(tasks[j]) >= 0
         /\ SortInstant(tasks[i]) = SortInstant(tasks[j])
              => ResponseIndex(tasks[i]) < ResponseIndex(tasks[j])

\* The response had a task due after the epoch ahead of one without a due
\* date, and the list has them the other way round.
C6_Witness ==
  /\ Len(tasks) = 2
  /\ ~tasks[1].completed /\ ~tasks[2].completed
  /\ ~HasDueDate(tasks[1])
  /\ HasDueDate(tasks[2]) /\ DueDateOf(tasks[2]) > 0
  /\ ResponseIndex(tasks[2]) < ResponseIndex(tasks[1])

----------------------------------------------------------------------------
(* C7 *)

SentStatus == ReqDetail.status

\* C7: a toggle to complete sends status "completed" with completed = true;
\* a toggle to incomplete sends the fetched task's status when it has one
\* other than "completed", and "in-progress" otherwise; so a task that was
\* "in-progress", was marked complete and read again, and is then marked
\* incomplete is sent as "in-progress", not "not-started".
C7_ToggleStatus ==
  lastReq.op = "toggle" =>
    LET current == SourceDetail.status
    IN  /\ lastReq.completed = Some(TRUE) =>
             /\ SentStatus = Some("completed")
             /\ ReqTask.completed
             /\ ReqBody.status = "completed"
        /\ lastReq.completed = Some(FALSE) =>
             /\ ~ReqTask.completed
             /\ (IsSome(current) /\ current # Some("completed")) => SentStatus = current
             /\ (~IsSome(current) \/ current = Some("completed")) => SentStatus = Some("in-progress")
        /\ (/\ lastReq.completed = Some(FALSE)
            /\ lastReq.prior.op = "toggle"
            /\ lastReq.prior.completed = Some(TRUE)
            /\ lastReq.prior.status = Some("in-progress")) =>
             /\ SentStatus = Some("in-progress")
             /\ detailOf(Get(held)).status = Some("in-progress")

\* An in-progress task was marked complete, read again and marked incomplete.
C7_Witness ==
  /\ lastReq.op = "toggle"
  /\ lastReq.completed = Some(FALSE)
  /\ lastReq.prior = [op |-> "toggle", completed |-> Some(TRUE), status |-> Some("in-progress")]
  /\ SourceDetail.status = Some("completed")
  /\ detailOf(Get(held)).status = Some("in-progress")

----------------------------------------------------------------------------
(* C8 *)

\* C8: every task decoded from a CarePlan, and every task a toggle, a delete
\* or the edit form hands to updateTask, has completed = true exactly when
\* its status is "completed".
C8_CompletedIffStatus ==
  /\ \A i \in 1..Len(tasks) : IsConsistentTask(tasks[i])
  /\ IsSome(held) => IsConsistentTask(createTaskFromCarePlan(Get(held)))
  /\ lastReq.op \in {"toggle", "delete", "edit"} => IsConsistentTask(ReqTask)

----------------------------------------------------------------------------
(* C9 *)

\* The performer entries of a request that refer to a resource of the type.
PerformersOfType(detail, resourceType) ==
  SelectSeq(IF IsSome(detail.performer) THEN Get(detail.performer) ELSE <<>>,
            LAMBDA p : p.reference = Some(<<resourceType, Get(p.reference)[2]>>))

\* C9: no create or update request of the form carries an empty task name,
\* a DATE due date without a date, or both a person and a role assignee
\* (the task has one assignee, of the type of the field that was filled),
\* and a submission that breaks a constraint issues no request and shows an
\* error on the offending field.
C9_NoInvalidRequest ==
  /\ lastReq.op \in {"create", "edit"} =>
       /\ ReqTask.name # <<>>
       /\ ReqDetail.description # Some(<<>>)
       /\ ~(Get(ReqTask.dueDate).type = Some("DATE") /\ ~IsSome(Get(ReqTask.dueDate).date))
       /\ (Get(ReqTask.dueDate).type = Some("DATE")) => IsSome(ReqDetail.scheduledPeriod)
       /\ IsSome(ReqTask.assignee) =>
            /\ Get(ReqTask.assignee).type \in {"person", "role"}
            /\ Get(ReqTask.assignee).type = "person" =>
                 PerformersOfType(ReqDetail, "PractitionerRole") = <<>>
  /\ lastReq.op = "blocked" =>
       /\ ~IsSome(lastReq.req)
       /\ formErrors # {}
       /\ "taskName" \in formErrors <=> form.taskName = <<>>
       /\ "dueDate" \in formErrors <=>
            (form.dueDateType = Some("DATE") /\ ~IsSome(form.dueDate))
       /\ "assigneeRole" \in formErrors <=>
            (IsSome(form.assignee) /\ IsSome(form.assigneeRole))

----------------------------------------------------------------------------
(* C10 *)

\* C10: a create request is a POST to the collection whose CarePlan has
\* activity status "not-started" and no id; the CarePlan of any request has
\* an id only when the task has a non-empty uuid, and the id is that uuid.
C10_CreateRequest ==
  /\ lastReq.op = "create" =>
       /\ Get(lastReq.req).method = "POST"
       /\ Get(lastReq.req).url = <<"careplan">>
       /\ ReqDetail.status = Some("not-started")
       /\ ~IsSome(ReqBody.id)
  /\ (IsSome(lastReq.req) /\ IsSome(ReqBody.id)) =>
       /\ HasUuid(ReqTask)
       /\ ReqBody.id = Some(ReqTask.uuid)

\* A task was created and the store gave it its id; the request had none.
C10_Witness ==
  /\ lastReq.op = "create"
  /\ ~IsSome(ReqBody.id)
  /\ Cardinality(DOMAIN server) >= 1
  /\ \A uuid \in DOMAIN server : server[uuid].id = Some(uuid)

----------------------------------------------------------------------------
(* C11 *)

HeldDetail == Get(held).activity[1].detail
HeldHasDetail == IsSome(held) /\ Len(Get(held).activity) >= 1 /\ IsSome(HeldDetail)
HeldTask == createTaskFromCarePlan(Get(held))
HeldEnd ==
  IF IsSome(Get(HeldDetail).scheduledPeriod) THEN Get(Get(HeldDetail).scheduledPeriod).end
  ELSE None
HeldDueKinds == extensionsOf(Get(HeldDetail), dueKindUrl)

\* C11: a task decoded from a CarePlan with a due-kind extension of code
\* this-visit, next-visit or date has the tag THIS_VISIT, NEXT_VISIT or DATE,
\* with or without scheduledPeriod.end; with no due-kind extension and
\* scheduledPeriod.end set it has the tag DATE; its resolved date is
\* scheduledPeriod.end whenever that is set.
C11_DueDateTag ==
  HeldHasDetail =>
    LET dueDate == Get(HeldTask.dueDate)
    IN  /\ \A code \in {"this-visit", "next-visit", "date"} :
             HeldDueKinds = <<dueKindExtension(code)>> =>
               dueDate.type = Some(CASE code = "this-visit" -> "THIS_VISIT"
                                     [] code = "next-visit" -> "NEXT_VISIT"
                                     [] code = "date" -> "DATE")
        /\ (HeldDueKinds = <<>> /\ IsSome(HeldEnd)) => dueDate.type = Some("DATE")
        /\ IsSome(HeldEnd) =>
             (IsSome(dueDate.date) /\ toISOString(Get(dueDate.date)) = Get(HeldEnd))

\* A CarePlan with an end and no due-kind extension was decoded as DATE.
C11_Witness ==
  /\ HeldHasDetail
  /\ HeldDueKinds = <<>>
  /\ IsSome(HeldEnd)
  /\ Get(HeldTask.dueDate).type = Some("DATE")
  /\ IsSome(Get(HeldTask.dueDate).date)

----------------------------------------------------------------------------
(* C12 *)

HeldIsBare == IsSome(held) /\ ~HeldHasDetail

\* C12: a CarePlan with no activities or no activity detail (hence no
\* extensions and no performers), no description and no author decodes to a
\* task with an empty name and with status, dueDate, rationale, assignee and
\* createdBy absent.
C12_BarePlanDecodesToAbsent ==
  (HeldIsBare /\ ~IsSome(Get(held).description) /\ ~IsSome(Get(held).author)) =>
    /\ HeldTask.name = <<>>
    /\ ~IsSome(HeldTask.status)
    /\ ~IsSome(HeldTask.dueDate)
    /\ ~IsSome(HeldTask.rationale)
    /\ ~IsSome(HeldTask.assignee)
    /\ ~IsSome(HeldTask.createdBy)

----------------------------------------------------------------------------
(* C13 *)

\* The positions of an effect in a handler's effects.
Positions(effect, steps) == {i \in 1..Len(steps) : steps[i] = effect}

Rejected(steps) == Occurs(<<"response", "rejected">>, steps)
Resolved(steps) == Occurs(<<"response", "ok">>, steps)

Navigations == {<<"call", "onBack">>, <<"call", "onDeleted">>, <<"call", "closeModal">>}
Revalidations == {<<"mutate", "list">>, <<"mutate", "task">>}

\* C13: a handler whose create, update, toggle or delete request was
\* rejected shows an error notification, calls neither onBack nor onDeleted,
\* revalidates nothing, and leaves the list data, the tasks shown and the
\* task of the details view as they were.
C13_RejectedLeavesStateAlone ==
  [][Rejected(effects') =>
       /\ Occurs(<<"snackbar", "error">>, effects')
       /\ ~Occurs(<<"snackbar", "success">>, effects')
       /\ \A effect \in Navigations \cup Revalidations : ~Occurs(effect, effects')
       /\ tasks' = tasks
       /\ data' = data
       /\ held' = held]_vars

\* A toggle from a list showing a task was rejected.
C13_Witness ==
  /\ Rejected(effects)
  /\ Occurs(<<"request", "PUT">>, effects)
  /\ Len(tasks) >= 1
  /\ ~IsSome(held)

----------------------------------------------------------------------------
(* C14 *)

\* C14: a handler whose mutation request resolved revalidates the list key
\* after the response and before it reports success or calls onBack,
\* onDeleted or closeModal.
C14_RevalidatesBeforeReporting ==
  Resolved(effects) =>
    \E r \in Positions(<<"mutate", "list">>, effects) :
      /\ \A p \in Positions(<<"response", "ok">>, effects) : p < r
      /\ \A effect \in Navigations \cup {<<"snackbar", "success">>} :
           \A p \in Positions(effect, effects) : r < p
      /\ data = Some(listResponse(server))

\* A delete resolved: the list was revalidated, then the modal closed, success
\* was reported and the details view left.
C14_Witness ==
  /\ Resolved(effects)
  /\ Occurs(<<"call", "onDeleted">>, effects)
  /\ Occurs(<<"snackbar", "success">>, effects)
  /\ ~IsSome(held)
  /\ \E uuid \in DOMAIN server : uuid \notin ListedUuids

----------------------------------------------------------------------------
(* C20 *)

\* C20: a handler that ran issued exactly one mutation request, whether the
\* request resolved or was rejected: nothing is sent again after a rejection.
C20_OneRequestPerAction ==
  effects # <<>> =>
    /\ Cardinality({i \in 1..Len(effects) : effects[i][1] = "request"}) = 1
    /\ Cardinality({i \in 1..Len(effects) : effects[i][1] = "response"}) = 1
    /\ effects[1][1] = "request"

\* A create was rejected: one POST, and the store is as it was.
C20_Witness ==
  /\ Rejected(effects)
  /\ Occurs(<<"request", "POST">>, effects)
  /\ Cardinality({i \in 1..Len(effects) : effects[i][1] = "request"}) = 1
  /\ server = <<>>

----------------------------------------------------------------------------
(* C15 *)

\* The step is a submission that made its call.
Submitted == lastReq'.op \in {"create", "edit"}

\* C15: a form mounted without editTaskUuid calls saveTask and never
\* updateTask, and a form mounted with editTaskUuid calls updateTask and
\* never saveTask, in every state in which the form can be submitted.
C15_ModeChoosesCall ==
  [][Submitted =>
       /\ ~IsSome(editTaskUuid) => (lastReq'.op = "create" /\ Get(lastReq'.req).method = "POST")
       /\ IsSome(editTaskUuid) => (lastReq'.op = "edit" /\ Get(lastReq'.req).method = "PUT")]_vars

----------------------------------------------------------------------------
(* C16 *)

\* The uuid and type of a task's assignee, if it has one.
AssigneeIdentity(task) ==
  IF IsSome(Prop(task, "assignee"))
    THEN Some(<<Get(task.assignee).uuid, Get(task.assignee).type>>)
    ELSE None

\* The task useTask returned to the form that made the last call.
LoadedTask(req) == createTaskFromCarePlan(Get(req.source))

\* C16: the Task an edit submission passes to updateTask has the uuid, status,
\* completed, createdDate and createdBy of the task useTask returned, whatever
\* the form holds; submitted with the values the form was reset to, it has
\* that task's priority, assignee uuid and type, and due-date type as well.
C16_EditKeepsLoadedTask ==
  [][lastReq'.op = "edit" =>
       LET loaded == LoadedTask(lastReq')
           sent == Get(lastReq'.task)
       IN  /\ lastReq'.source = held
           /\ sent.uuid = loaded.uuid
           /\ sent.status = loaded.status
           /\ sent.completed = loaded.completed
           /\ sent.createdDate = loaded.createdDate
           /\ sent.createdBy = loaded.createdBy
           /\ form = resetValues(loaded) =>
                /\ Prop(sent, "priority") = Prop(loaded, "priority")
                /\ AssigneeIdentity(sent) = AssigneeIdentity(loaded)
                /\ Get(sent.dueDate).type = Get(loaded.dueDate).type]_vars

\* An edit was submitted after the user changed the assignee and the priority:
\* the task sent is still the loaded one by uuid, status and provenance.
C16_Witness ==
  /\ lastReq.op = "edit"
  /\ AssigneeIdentity(Get(lastReq.task)) # AssigneeIdentity(LoadedTask(lastReq))
  /\ Prop(Get(lastReq.task), "priority") = Some("high")
  /\ Get(lastReq.task).uuid = LoadedTask(lastReq).uuid
  /\ Get(lastReq.task).status = Some("completed")

----------------------------------------------------------------------------
(* C17 *)

\* The keys of a CarePlan buildCarePlan sets: created and author are the
\* store's.
BodyFields(body) == (DOMAIN body) \ {"created", "author"}

\* C17: when two clients that read the same task each send a PUT, no PUT is
\* rejected, and the stored CarePlan equals, key by key, the body of the PUT
\* applied last, whatever the PUT before it had written.
C17_LastWriterWins ==
  lastReq.op \in {"edit", "toggle", "delete"} =>
    LET req == Get(lastReq.req)
        stored == server[req.url[2]]
    IN  /\ Resolved(effects)
        /\ ~Rejected(effects)
        /\ \A field \in BodyFields(req.body) : stored[field] = req.body[field]
        /\ stored.created = serverCreated
        /\ stored.author = serverAuthor

\* The second client completed the task, then the first client's edit, built
\* from the task as it had read it, was applied: the store has the task
\* active again while the second client's list still shows it completed.
C17_Witness ==
  /\ lastReq.op = "edit"
  /\ lastReq.prior.op = "toggle"
  /\ lastReq.prior.completed = Some(TRUE)
  /\ Resolved(effects)
  /\ server[Uuid(1)].status = "active"
  /\ Len(tasks) = 1
  /\ tasks[1].completed

----------------------------------------------------------------------------
(* C18 *)

\* C18: when the fetch of a task fails because the task does not exist, what
\* useTask returns and what the details view renders both differ from what
\* they are when the fetch fails for a network or server error.
C18_NotFoundIsDistinct ==
  heldError = Some("not-found") =>
    /\ useTask(held, heldError) # useTask(held, Some("network"))
    /\ TaskDetailsView(useTask(held, heldError)) # TaskDetailsView(useTask(held, Some("network")))

----------------------------------------------------------------------------
(* C19 *)

\* The details view shows the task's details.
ShowsDetails == TaskDetailsView(useTask(held, heldError)) = "details"

----------------------------------------------------------------------------
(* C21 *)

\* C21: whatever the form actions were, at most one of the form's assignee
\* and assigneeRole is set, and the task a submission builds has the provider
\* as a person assignee, or the role as a role assignee, or no assignee when
\* neither is set.
C21_OneAssigneeField ==
  [][/\ ~(IsSome(form'.assignee) /\ IsSome(form'.assigneeRole))
     /\ Submitted =>
          LET sent == Get(lastReq'.task).assignee
          IN  /\ IsSome(form.assignee) =>
                   sent = Some([uuid |-> Get(form.assignee).id,
                                display |-> Get(form.assignee).label, type |-> "person"])
              /\ IsSome(form.assigneeRole) =>
                   sent = Some([uuid |-> Get(form.assigneeRole).id,
                                display |-> Get(form.assigneeRole).label, type |-> "role"])
              /\ (~IsSome(form.assignee) /\ ~IsSome(form.assigneeRole)) => sent = None]_vars

\* A system task with a default role was selected in the edit form of a task
\* assigned to a provider: the role is set and the provider cleared.
C21_Witness ==
  /\ IsSome(held)
  /\ IsSome(createTaskFromCarePlan(Get(held)).assignee)
  /\ Get(createTaskFromCarePlan(Get(held)).assignee).type = "person"
  /\ form.assigneeRole = Some([id |-> "r2", label |-> Some("Lab")])
  /\ form.assignee = None

----------------------------------------------------------------------------
(* C22 *)

\* C22: a task stored with activity status "cancelled" stays stored with that
\* status through every client operation, those built from a copy of the task
\* read before the cancellation included.
C22_CancelledStaysCancelled ==
  [][\A uuid \in DOMAIN server :
       detailOf(server[uuid]).status = Some("cancelled") =>
         detailOf(server'[uuid]).status = Some("cancelled")]_vars

----------------------------------------------------------------------------
(* C23 *)

\* The due date of the task of the last call, and what the body has for it.
ReqDueDate == Prop(ReqTask, "dueDate")
ReqDueType == IF IsSome(ReqDueDate) THEN Prop(Get(ReqDueDate), "type") ELSE None
ReqDueInstant == IF IsSome(ReqDueDate) THEN Prop(Get(ReqDueDate), "date") ELSE None
ReqVisit == IF IsSome(ReqDueDate) THEN Prop(Get(ReqDueDate), "referenceVisitUuid") ELSE None
ReqDueKinds == extensionsOf(ReqDetail, dueKindUrl)
ReqEncounters == extensionsOf(ReqDetail, associatedEncounterUrl)

\* The detail of a DATE task with its date: the date as the period's end, one
\* due-kind extension "date".
EncodedAsDate ==
  /\ IsSome(ReqDueInstant)
  /\ ReqDetail.scheduledPeriod = Some([end |-> Some(toISOString(Get(ReqDueInstant)))])
  /\ ReqDueKinds = <<dueKindExtension("date")>>

\* The detail of a visit task: an empty period, one due-kind extension with
\* the code, the associated encounter exactly when referenceVisitUuid is set.
EncodedAsVisit(code) ==
  /\ ReqDetail.scheduledPeriod = Some([end |-> None])
  /\ ReqDueKinds = <<dueKindExtension(code)>>
  /\ ReqEncounters = IF IsSome(ReqVisit) /\ Get(ReqVisit) # ""
                       THEN <<associatedEncounterExtension(Get(ReqVisit))>> ELSE <<>>

----------------------------------------------------------------------------
(* C24 *)

\* The performer is a reference "Practitioner/{id}" or "PractitionerRole/{id}"
\* with an id.
IsRecognised(performer) ==
  /\ IsSome(performer.reference)
  /\ Len(Get(performer.reference)) >= 2
  /\ Get(performer.reference)[1] \in {"Practitioner", "PractitionerRole"}
  /\ Get(performer.reference)[2] # ""

HeldPerformers ==
  IF IsSome(Get(HeldDetail).performer) THEN Get(Get(HeldDetail).performer) ELSE <<>>

\* C24: the decoded assignee is that of the last performer with a reference
\* "Practitioner/{id}" (a person) or "PractitionerRole/{id}" (a role) and an
\* id; the other performers are skipped, and with none recognised the task
\* has no assignee.
C24_LastRecognisedPerformer ==
  HeldHasDetail =>
    LET recognised == SelectSeq(HeldPerformers, IsRecognised)
    IN  IF recognised = <<>> THEN HeldTask.assignee = None
        ELSE LET last == recognised[Len(recognised)]
             IN  HeldTask.assignee =
                   Some([uuid |-> Get(last.reference)[2],
                         display |-> last.display,
                         type |-> IF Get(last.reference)[1] = "Practitioner"
                                    THEN "person" ELSE "role"])

\* A practitioner, then a practitioner role: the task is assigned to the role.
C24_Witness ==
  /\ HeldHasDetail
  /\ Len(HeldPerformers) = 2
  /\ IsRecognised(HeldPerformers[1])
  /\ Get(HeldPerformers[1].reference)[1] = "Practitioner"
  /\ IsSome(HeldTask.assignee)
  /\ Get(HeldTask.assignee) = [uuid |-> "r1", display |-> None, type |-> "role"]

----------------------------------------------------------------------------
(* C25 *)

\* C25: the add-task form never has two create requests in flight.
C25_OneCreateInFlight == CreatesInFlight <= 1

----------------------------------------------------------------------------
(* C26 *)

\* A call of handleFormSubmission has run to its end in this step.
FormCallEnded ==
  /\ Len(inFlight') = Len(inFlight) - 1
  /\ \E k \in 1..Len(inFlight) :
       /\ inFlight[k].handler \in {"create", "edit"}
       /\ inFlight' = RemoveAt(inFlight, k) \/ inFlight' = unmounted(RemoveAt(inFlight, k))

ReportsFailure(steps) == Occurs(<<"snackbar", "error">>, steps)
ReportsSuccess(steps) == Occurs(<<"snackbar", "success">>, steps)

----------------------------------------------------------------------------
(* C29 *)

\* C29: whenever the view is 'details' or 'edit' a task is selected; the back
\* button goes from 'edit' to 'details' keeping the selection, and from
\* 'form' or 'details' to 'list' clearing it.
C29_SelectionFollowsView ==
  [][/\ view' \in {"details", "edit"} => IsSome(selectedTaskUuid')
     /\ handleBackClick =>
          IF view = "edit"
            THEN view' = "details" /\ selectedTaskUuid' = selectedTaskUuid
            ELSE view' = "list" /\ selectedTaskUuid' = None]_vars

----------------------------------------------------------------------------
(* C27 *)

TogglesInFlight == {k \in 1..Len(inFlight) : inFlight[k].handler = "toggle"}

\* C27: the list view on screen has in pendingUpdates the uuid of every task
\* with a completion toggle whose request or revalidation has not settled,
\* and with no toggle in flight pendingUpdates is empty.
C27_PendingWhileInFlight ==
  view = "list" =>
    /\ \A k \in TogglesInFlight : inFlight[k].uuid \in pendingUpdates
    /\ TogglesInFlight = {} => pendingUpdates = {}

----------------------------------------------------------------------------
(* C28 *)

\* C28: the due-date type of the task a submission sends is the tab the
\* due-date switcher shows as selected when the form is submitted.
C28_PayloadTypeIsShownTab ==
  [][Submitted => ReqDueType' = Some(selectedSwitch(form.dueDateType))]_vars

----------------------------------------------------------------------------
(* C30 *)

\* The calendar day an instant falls on, days counted from the epoch's.
CalendarDay(instant) == instant \div 2

HasResolvedDueDate(task) == IsSome(task.dueDate) /\ IsSome(Get(task.dueDate).date)

\* C30: a listed task is tagged overdue exactly if it is not completed, has a
\* resolved due date and that date's calendar day is before today's.
C30_OverdueTag ==
  \A i \in 1..Len(tasks), today \in Times :
    isOverdue(tasks[i], today) <=>
      /\ ~tasks[i].completed
      /\ HasResolvedDueDate(tasks[i])
      /\ CalendarDay(Get(Get(tasks[i].dueDate).date)) < CalendarDay(today)

\* Listed together: an open task due on an earlier day, tagged, and an open
\* task due earlier the same day, not tagged.
C30_Witness ==
  \E i, j \in 1..Len(tasks), today \in Times :
    /\ isOverdue(tasks[i], today)
    /\ ~tasks[j].completed /\ HasResolvedDueDate(tasks[j])
    /\ Get(Get(tasks[j].dueDate).date) < today
    /\ ~isOverdue(tasks[j], today)

====
